---- MODULE Spec2Model ----
(***************************************************************************)
(* Radar tile prefetch-and-playback cache of the map screen                *)
(* (src/app/MapScreen.tsx): tile addressing, the fetch cache               *)
(* (prefetchUrlOnce), the concurrency-limited task runner                  *)
(* (runWithConcurrency), the debounced prefetch scheduler                  *)
(* (schedulePrefetchAll), the frame timeline with its desired -> active    *)
(* handoff, the playback warm-up gate (onPressPlay) and the playback clock.*)
(*                                                                         *)
(* Four specifications share one initial state:                            *)
(*   SpecCache    calls of prefetchUrlOnce against the platform prefetch   *)
(*   SpecRunner   one run of runWithConcurrency, worker by worker          *)
(*   SpecDebounce schedulePrefetchAll against a millisecond clock          *)
(*   Spec         the MapScreen component: handlers, renders and effects   *)
(* The autocomplete input of the home screen                               *)
(* (src/app/components/SearchInput.tsx) and the list of previous routes    *)
(* (src/app/index.tsx) have a specification each: SpecSearch, SpecHome.    *)
(***************************************************************************)
EXTENDS Integers, Sequences, FiniteSets, Bags, TLC

VARIABLES
  \* ---- module-level state of MapScreen.tsx
  tileCache,        \* const tileCache = new Set<string>()            (line 143)
  \* ---- calls of prefetchUrlOnce (SpecCache)
  pfCalls,          \* the calls made so far, each awaiting or settled
  platformCalls,    \* per URL, how often Image.prefetch was invoked
  platformOk,       \* URLs for which a completed Image.prefetch reported success
  \* ---- one run of runWithConcurrency (SpecRunner)
  run,              \* the run's locals: tasks, i, done, workers, results
  \* ---- state and refs of the component (lines 167-207)
  frames,           \* useState<number[]>([])                         (line 189)
  windowFrames,     \* useMemo over frames: the last 2h, capped       (line 307)
  frameIdx,         \* useState(0)                                    (line 190)
  pendingIdx,       \* useState<number | null>(null)                  (line 191)
  activeTs,         \* useState<number | undefined>(undefined)        (line 194)
  desiredTs,        \* useState<number | undefined>(undefined)        (line 195)
  region,           \* useState<Region | null>(null)                  (line 198)
  isLoadingFrame,   \* useState(false)                                (line 201)
  isPlaying,        \* useState(false)                                (line 204)
  warming,          \* useState(false)                                (line 205)
  warmProgress,     \* useState(0), kept as the fraction <<done, total>> (line 206)
  lastWarmSig,      \* useRef<string | null>(null)                    (line 207)
  animTimer,        \* useRef: TRUE while it holds an interval's handle (line 171)
  liveIntervals,    \* the intervals created by setInterval and not cleared
  mounted,          \* the component is mounted
  prefetchDebounce, \* useRef: the pending debounce timer, or Null    (line 170)
  batches,          \* the bag of runs of runWithConcurrency in flight
  now,              \* Date.now() / 1000, floored
  \* ---- history
  attempted,        \* timestamps covered by a batch that has settled
  warmed,           \* (viewport, frames) of the last completed warm pass, or Null
  renders,          \* <<frameIdx, windowFrames.length>> of every render the last step committed
  \* ---- schedulePrefetchAll against the clock (SpecDebounce)
  clock,            \* milliseconds since the screen was mounted
  schedCalls,       \* the calls of schedulePrefetchAll that armed a timer
  executed,         \* the prefetch batches the debounce timer has started
  \* ---- state, props and refs of SearchInput (components/SearchInput.tsx)
  apiKey,           \* the prop apiKey                                (line 29)
  text,             \* useState("")                                   (line 35)
  predictions,      \* useState<Prediction[]>([])                     (line 36)
  loading,          \* useState(false)                                (line 37)
  debounceTimer,    \* useRef: the pending timer with its query, or Null (line 41)
  seqRef,           \* useRef(0)                                      (line 43)
  lastIssuedQuery,  \* useRef<string>("")                             (line 44)
  requests,         \* the autocomplete requests in flight (abortRef: line 42)
  \* ---- state of the home screen (index.tsx)
  coords,           \* useState<{lat, lng} | null>(null)              (line 27)
  homeLoading,      \* const [loading, setLoading] = useState(true)   (line 28)
  previousRoutes,   \* useState<RouteItem[]>([])                      (line 30)
  details,          \* the place-details requests in flight           (line 57)
  clockMs,          \* Date.now()                                     (lines 66, 95)
  \* ---- the last operation that acted, with its arguments
  lastOp

cacheVars  == <<pfCalls, platformCalls, platformOk>>
runnerVars == <<run>>
debounceVars == <<clock, schedCalls, executed>>
screenVars == <<frames, windowFrames, frameIdx, pendingIdx, activeTs, desiredTs,
                region, isLoadingFrame, isPlaying, warming, warmProgress,
                lastWarmSig, animTimer, liveIntervals, mounted, batches, now,
                attempted, warmed, renders>>
searchVars == <<apiKey, text, predictions, loading, debounceTimer, seqRef,
                lastIssuedQuery, requests>>
homeVars == <<coords, homeLoading, previousRoutes, details, clockMs>>
appVars == <<searchVars, homeVars>>
vars == <<tileCache, pfCalls, platformCalls, platformOk, run, frames, windowFrames,
          frameIdx, pendingIdx, activeTs, desiredTs, region, isLoadingFrame,
          isPlaying, warming, warmProgress, lastWarmSig, animTimer,
          liveIntervals, mounted, prefetchDebounce, batches, now, attempted, warmed, renders,
          clock, schedCalls, executed, apiKey, text, predictions, loading,
          debounceTimer, seqRef, lastIssuedQuery, requests, coords, homeLoading,
          previousRoutes, details, clockMs, lastOp>>

(***************************************************************************)
(* Bounds of the model                                                     *)
(***************************************************************************)
MaxCalls == 4        \* calls of prefetchUrlOnce in SpecCache
MaxTasks == 4        \* length of the task list given to runWithConcurrency
MaxPool  == 3        \* largest pool size tried in SpecRunner
MaxBatches == 2      \* runs of runWithConcurrency in flight at once (Spec)
MaxSchedCalls == 3   \* calls of schedulePrefetchAll that arm a timer (SpecDebounce)
MaxClock == 450      \* last instant (ms) at which SpecDebounce lets time pass
TickMs == 50         \* largest step (ms) by which SpecDebounce advances the clock

(***************************************************************************)
(* Tunables (MapScreen.tsx lines 62-71)                                    *)
(***************************************************************************)
MAX_NATIVE_Z == 12
TILE_SIZE == 256
NEIGHBOR_RADIUS == 1
PREFETCH_Z_SPREAD == <<0, -1>>
CONCURRENCY == 8
PREFETCH_DEBOUNCE_MS == 150
MAX_FRAMES_TO_CACHE == 18
ANIM_MS == 2500
WARM_START_THRESHOLD_PCT == 85     \* WARM_START_THRESHOLD = 0.85, in percent

\* undefined / null of the source, for values that are otherwise numbers
Undefined == -1
Null == [null |-> TRUE]

Min(a, b) == IF a < b THEN a ELSE b
Max(a, b) == IF a > b THEN a ELSE b
Abs(a) == IF a < 0 THEN -a ELSE a
Pow2(n) == 2 ^ n

(***************************************************************************)
(* Tile addressing (lines 130-140).  A Region is                           *)
(*   [latitude, longitude, lonDeltaNum, lonDeltaDen]                       *)
(* with latitude and longitude in units of 0.0005 degree and               *)
(* longitudeDelta = lonDeltaNum / lonDeltaDen degrees.                     *)
(***************************************************************************)
\* Math.round(Math.max(0, Math.log2(360 / r.longitudeDelta))), capped at cap:
\* the largest j <= cap with j = 0 or 360/delta >= 2^(j - 1/2), the latter
\* compared after squaring: (a/b)^2 >= 2^(2j-1) iff floor(a^2 / b^2) >= 2^(2j-1)
\* (regionToZoom, line 130, under Math.round).
RoundedZoom(r, cap) ==
  LET a == 360 * r.lonDeltaDen
      b == r.lonDeltaNum
      ok(j) == j = 0 \/ (a * a) \div (b * b) >= Pow2(2 * j - 1)
  IN CHOOSE j \in 0..cap : ok(j) /\ \A k \in (j + 1)..cap : ~ok(k)

\* lines 335, 364, 390, 396:
\* Math.min(MAX_NATIVE_Z, Math.max(0, Math.round(regionToZoom(r))))
zClamp(r) == Min(MAX_NATIVE_Z, Max(0, RoundedZoom(r, MAX_NATIVE_Z)))

\* (1 - ln(tan(latRad) + 1/cos(latRad)) / PI) / 2 of line 135, times 2^20 and
\* floored, for the latitudes the model uses (units of 0.0005 degree)
MercatorY20(lat) ==
  CASE lat = 59200 -> 433959      \* 29.6
    [] lat = 59201 -> 433957      \* 29.6005
    [] lat = 0     -> 524288      \* 0.0
    [] lat = 178000 -> -266977    \* 89.0
    [] lat = -178000 -> 1315552   \* -89.0
    [] lat = 170000 -> 1717       \* 85.0
    [] lat = -170000 -> 1046858   \* -85.0
    [] lat = 120000 -> 304506     \* 60.0
    [] lat = -90000 -> 671376     \* -45.0

\* lngLatToTile (lines 131-137): x = floor((lon + 180) / 360 * 2^z),
\* y = floor(mercator * 2^z); 720000 units = 360 degrees = 5625 * 2^7
lngLatToTile(lon, lat, z) ==
  LET v == lon + 360000
      x == IF z >= 7 THEN (v * Pow2(z - 7)) \div 5625
           ELSE v \div (5625 * Pow2(7 - z))
      y == MercatorY20(lat) \div Pow2(20 - z)
  IN [x |-> x, y |-> y, z |-> z]

\* tileUrl (lines 138-140): the URL is determined by (ts, size, z, x, y)
tileUrl(ts, z, x, y, size) == <<ts, size, z, x, y>>

Side == 2 * NEIGHBOR_RADIUS + 1

PerFrame_oneZoom == Side * Side

\* the tasks the loops over dz, dx, dy push for one timestamp
PerFrame == Len(PREFETCH_Z_SPREAD) * Side * Side

\* the j-th URL (j from 0) of the loops "for dz / for dx / for dy" around
\* base for timestamp ts (lines 340-348, 368-375, 401-408)
NeighbourUrl(ts, base, j) ==
  LET dz == PREFETCH_Z_SPREAD[(j \div (Side * Side)) + 1]
      dx == ((j \div Side) % Side) - NEIGHBOR_RADIUS
      dy == (j % Side) - NEIGHBOR_RADIUS
      z  == Max(0, Min(MAX_NATIVE_Z, base.z + dz))
  IN tileUrl(ts, z, base.x + dx, base.y + dy, TILE_SIZE)

\* the URLs of "for ts of framesList / for dz / for dx / for dy", in order
FrameUrls(r, framesList) ==
  LET base == lngLatToTile(r.longitude, r.latitude, zClamp(r))
  IN [j \in 1..(Len(framesList) * PerFrame) |->
        NeighbourUrl(framesList[((j - 1) \div PerFrame) + 1], base, (j - 1) % PerFrame)]

\* viewports of the model: Gainesville at street zoom (longitudeDelta 0.03,
\* zoom 14 clamped to 12), the same zoomed out (longitudeDelta 45, zoom 3),
\* and the first panned north by 0.0005 degree (same tiles, other centre)
RegionA == [latitude |-> 59200, longitude |-> -164600, lonDeltaNum |-> 3, lonDeltaDen |-> 100]
RegionB == [latitude |-> 59200, longitude |-> -164600, lonDeltaNum |-> 45, lonDeltaDen |-> 1]
RegionC == [latitude |-> 59201, longitude |-> -164600, lonDeltaNum |-> 3, lonDeltaDen |-> 100]
\* what onRegionChangeComplete reports to the screen, and what the scheduler
\* is called with
Regions == {RegionA, RegionC}
DebounceRegions == {RegionA, RegionB}

(***************************************************************************)
(* Fetch cache: prefetchUrlOnce (lines 144-149).  A call first tests the   *)
(* cache; on a miss it awaits Image.prefetch(url), whose outcome is        *)
(* "true", "false" or "reject"; the .catch turns a rejection into false.   *)
(***************************************************************************)
PlatformOutcomes == {"true", "false", "reject"}

\* line 145: if (tileCache.has(url)) return true;
prefetchUrlOnce_hit(cache, url) == url \in cache

prefetchUrlOnce_settle_addAlways(cache, url, outcome) ==
  [cache |-> cache \cup {url}, settled |-> "resolved", value |-> outcome = "true"]

prefetchUrlOnce_settle_neverAdd(cache, url, outcome) ==
  [cache |-> cache, settled |-> "resolved", value |-> outcome = "true"]

\* lines 146-148: const ok = await Image.prefetch(url).catch(() => false);
\*                if (ok) tileCache.add(url); return ok;
prefetchUrlOnce_settle(cache, url, outcome) ==
  LET ok == IF outcome = "reject" THEN FALSE ELSE outcome = "true"
  IN [cache   |-> IF ok THEN cache \cup {url} ELSE cache,
      settled |-> "resolved",
      value   |-> ok]

\* URLs used by SpecCache
CacheUrls == {"u1", "u2"}

InitCache ==
  /\ tileCache = {}
  /\ pfCalls = << >>
  /\ platformCalls = [u \in CacheUrls |-> 0]
  /\ platformOk = {}

\* prefetchUrlOnce(url) is called: the synchronous part up to the await
PrefetchCall(url) ==
  /\ Len(pfCalls) < MaxCalls
  /\ IF prefetchUrlOnce_hit(tileCache, url)
       THEN /\ pfCalls' = Append(pfCalls,
                 [url |-> url, state |-> "resolved", value |-> TRUE, io |-> FALSE])
            /\ platformCalls' = platformCalls
       ELSE /\ pfCalls' = Append(pfCalls,
                 [url |-> url, state |-> "awaiting", value |-> FALSE, io |-> TRUE])
            /\ platformCalls' = [platformCalls EXCEPT ![url] = @ + 1]
  /\ lastOp' = [op |-> "prefetchUrlOnce", url |-> url, call |-> Len(pfCalls) + 1]
  /\ UNCHANGED <<tileCache, platformOk, runnerVars, prefetchDebounce, debounceVars, screenVars, appVars>>

\* Image.prefetch of call c settles and the call runs to its return
PrefetchSettle(c, outcome) ==
  /\ pfCalls[c].state = "awaiting"
  /\ LET r == prefetchUrlOnce_settle(tileCache, pfCalls[c].url, outcome)
     IN /\ tileCache' = r.cache
        /\ pfCalls' = [pfCalls EXCEPT ![c].state = r.settled, ![c].value = r.value]
  /\ platformOk' = IF outcome = "true" THEN platformOk \cup {pfCalls[c].url}
                   ELSE platformOk
  /\ lastOp' = [op |-> "Image.prefetch", url |-> pfCalls[c].url, call |-> c,
                outcome |-> outcome]
  /\ UNCHANGED <<platformCalls, runnerVars, prefetchDebounce, debounceVars, screenVars, appVars>>

NextCache ==
  \/ \E url \in CacheUrls : PrefetchCall(url)
  \/ \E c \in 1..MaxCalls, outcome \in PlatformOutcomes :
       c <= Len(pfCalls) /\ PrefetchSettle(c, outcome)

\* a step in which prefetchUrlOnce is called
IsPrefetchCallStep ==
  /\ Len(pfCalls') = Len(pfCalls) + 1
  /\ lastOp'.op = "prefetchUrlOnce"

\* a step in which the platform prefetch of some call settles
IsPrefetchSettleStep ==
  /\ lastOp'.op = "Image.prefetch"
  /\ pfCalls[lastOp'.call].state = "awaiting"
  /\ pfCalls'[lastOp'.call].state # "awaiting"

\* C3: once a call prefetchUrlOnce(url) has completed with the platform
\* prefetch reporting success, every later call for that url resolves true
\* without invoking the platform prefetch again (a cache hit: no I/O).
C3_LaterCallIsCacheHit ==
  [][ (IsPrefetchCallStep /\ lastOp'.url \in platformOk)
        => /\ platformCalls' = platformCalls
           /\ pfCalls'[lastOp'.call].state = "resolved"
           /\ pfCalls'[lastOp'.call].value = TRUE ]_vars

\* C3 witness: two calls for one url, the first fetched it with success,
\* the second was the last step and did no I/O: one platform prefetch in all.
C3_Witness ==
  /\ lastOp.op = "prefetchUrlOnce"
  /\ lastOp.url \in platformOk
  /\ platformCalls[lastOp.url] = 1
  /\ pfCalls[lastOp.call].io = FALSE
  /\ pfCalls[lastOp.call].value = TRUE
  /\ \E c \in 1..(lastOp.call - 1) :
        pfCalls[c].url = lastOp.url /\ pfCalls[c].io /\ pfCalls[c].value = TRUE

\* C4: when the platform prefetch fails (resolves false or rejects) the call
\* resolves false (it does not reject) and the cache is left as it was; a
\* call for a url no platform prefetch has fetched invokes the platform again.
C4_FailureNotRecorded ==
  [][ /\ (IsPrefetchSettleStep /\ lastOp'.outcome # "true")
          => /\ tileCache' = tileCache
             /\ pfCalls'[lastOp'.call].state = "resolved"
             /\ pfCalls'[lastOp'.call].value = FALSE
      /\ (IsPrefetchCallStep /\ lastOp'.url \notin platformOk)
          => /\ platformCalls'[lastOp'.url] = platformCalls[lastOp'.url] + 1
             /\ pfCalls'[lastOp'.call].state = "awaiting" ]_vars

\* C4 witness: a call whose platform prefetch failed (one resolving false,
\* one rejecting), the url still not cached, and a later call that has
\* invoked the platform prefetch again.
C4_Witness ==
  \E c1, c2, c3 \in 1..Len(pfCalls) :
    /\ c1 < c3 /\ c2 < c3
    /\ pfCalls[c1].url = pfCalls[c3].url
    /\ pfCalls[c1].state = "resolved" /\ pfCalls[c1].io /\ pfCalls[c1].value = FALSE
    /\ pfCalls[c2].state = "resolved" /\ pfCalls[c2].io /\ pfCalls[c2].value = FALSE
    /\ c1 # c2
    /\ pfCalls[c3].io
    /\ pfCalls[c1].url \notin tileCache
    /\ platformCalls[pfCalls[c1].url] >= 2
    /\ lastOp.op = "prefetchUrlOnce" /\ lastOp.call = c3

(***************************************************************************)
(* Task runner: runWithConcurrency (lines 150-163).  Tasks are numbered    *)
(* 1..total (tasks[idx-1] of the source).  A task is "idle" until a worker *)
(* invokes it, "running" until its promise settles, then "fulfilled" or    *)
(* "rejected".  A worker is an async function: it runs until it awaits the *)
(* task it claimed, and is resumed once that task has settled.             *)
(***************************************************************************)
TaskOutcomes == {"fulfilled", "rejected"}

InitRunner ==
  run = [phase |-> "idle", total |-> 0, concurrency |-> 0, i |-> 0, done |-> 0,
         status |-> << >>, starts |-> << >>, results |-> << >>,
         workers |-> << >>, progress |-> << >>, value |-> << >>]

WorkerCount_unbounded(concurrency, total) == total

\* line 154: new Array(Math.min(concurrency, tasks.length))
WorkerCount(concurrency, total) == Min(concurrency, total)

\* the claim of one task by worker w (lines 156-158, up to the await)
ClaimTask(r, w) ==
  LET idx == r.i + 1
  IN [r EXCEPT !.i = r.i + 1,
               !.status[idx] = "running",
               !.starts[idx] = @ + 1,
               !.results[idx] = idx,
               !.workers[w] = idx]

WorkerLoop_once(r, w) ==
  IF r.i < r.total /\ r.workers[w] = -1
    THEN ClaimTask(r, w)
    ELSE [r EXCEPT !.workers[w] = 0]

\* line 155: while (i < tasks.length) { claim and await } ; 0 = worker returned
WorkerLoop(r, w) ==
  IF r.i < r.total
    THEN ClaimTask(r, w)
    ELSE [r EXCEPT !.workers[w] = 0]

RECURSIVE SpawnWorkers(_, _)
\* line 154: .map(async () => {...}): each worker runs to its first await
SpawnWorkers(r, w) ==
  IF w > Len(r.workers) THEN r
  ELSE SpawnWorkers(WorkerLoop(r, w), w + 1)

\* lines 151-154: the synchronous part of runWithConcurrency(tasks, concurrency)
RunCall(total, concurrency) ==
  /\ run.phase = "idle"
  /\ run' = SpawnWorkers(
       [phase |-> "running", total |-> total, concurrency |-> concurrency,
        i |-> 0, done |-> 0,
        status  |-> [t \in 1..total |-> "idle"],
        starts  |-> [t \in 1..total |-> 0],
        results |-> [t \in 1..total |-> 0],
        workers |-> [w \in 1..WorkerCount(concurrency, total) |-> -1],
        progress |-> << >>, value |-> << >>], 1)
  /\ lastOp' = [op |-> "runWithConcurrency", total |-> total,
                concurrency |-> concurrency]
  /\ UNCHANGED <<tileCache, cacheVars, prefetchDebounce, debounceVars, screenVars, appVars>>

TaskSettle_successOnly(idx, outcome) ==
  /\ run.phase = "running"
  /\ run.status[idx] = "running"
  /\ run' = [run EXCEPT !.status[idx] = outcome,
                        !.done = IF outcome = "fulfilled" THEN run.done + 1 ELSE run.done,
                        !.progress = IF outcome = "fulfilled"
                                       THEN Append(@, <<run.done + 1, run.total>>) ELSE @]
  /\ lastOp' = [op |-> "task", idx |-> idx, outcome |-> outcome]
  /\ UNCHANGED <<tileCache, cacheVars, prefetchDebounce, debounceVars, screenVars, appVars>>

\* line 157: the promise of task idx settles; .finally counts it and reports
TaskSettle(idx, outcome) ==
  /\ run.phase = "running"
  /\ run.status[idx] = "running"
  /\ run' = [run EXCEPT !.status[idx] = outcome,
                        !.done = run.done + 1,
                        !.progress = Append(@, <<run.done + 1, run.total>>)]
  /\ lastOp' = [op |-> "task", idx |-> idx, outcome |-> outcome]
  /\ UNCHANGED <<tileCache, cacheVars, prefetchDebounce, debounceVars, screenVars, appVars>>

\* line 158: results[idx].catch(() => undefined) is fulfilled whether the
\* task's promise was fulfilled or rejected
AwaitResult(status) ==
  IF status = "rejected" THEN "fulfilled" ELSE status

\* line 158: the await returns and the loop goes on; were the awaited promise
\* rejected the worker would throw, and Promise.all(workers) reject the run
WorkerResume(w) ==
  /\ run.phase = "running"
  /\ run.workers[w] > 0
  /\ run.status[run.workers[w]] \in TaskOutcomes
  /\ run' = IF AwaitResult(run.status[run.workers[w]]) = "rejected"
              THEN [run EXCEPT !.phase = "rejected"]
              ELSE WorkerLoop(run, w)
  /\ lastOp' = [op |-> "worker", worker |-> w]
  /\ UNCHANGED <<tileCache, cacheVars, prefetchDebounce, debounceVars, screenVars, appVars>>

\* lines 161-162: await Promise.all(workers); return Promise.allSettled(results)
RunResolve ==
  /\ run.phase = "running"
  /\ \A w \in 1..Len(run.workers) : run.workers[w] = 0
  /\ \A j \in 1..run.total : run.results[j] = 0 \/ run.status[run.results[j]] \in TaskOutcomes
  /\ run' = [run EXCEPT !.phase = "resolved",
                        !.value = [j \in 1..run.total |->
                                     IF run.results[j] = 0 THEN "empty"
                                     ELSE run.status[run.results[j]]]]
  /\ lastOp' = [op |-> "resolve"]
  /\ UNCHANGED <<tileCache, cacheVars, prefetchDebounce, debounceVars, screenVars, appVars>>

NextRunner ==
  \/ \E total \in 0..MaxTasks, concurrency \in 1..MaxPool : RunCall(total, concurrency)
  \/ \E idx \in 1..MaxTasks, outcome \in TaskOutcomes :
       idx <= run.total /\ TaskSettle(idx, outcome)
  \/ \E w \in 1..MaxPool : w <= Len(run.workers) /\ WorkerResume(w)
  \/ RunResolve

InFlight == {t \in 1..run.total : run.status[t] = "running"}

\* C5: at every moment of a run at most min(k, N) tasks are started and not
\* yet settled, and when k >= N every task is in flight before any settles.
C5_ConcurrencyBound ==
  run.phase # "idle" =>
    /\ Cardinality(InFlight) <= Min(run.concurrency, run.total)
    /\ (run.concurrency >= run.total /\ run.done = 0) => InFlight = 1..run.total

\* C5 witness: a run with more tasks than workers, the pool full after a
\* task has settled and its worker has claimed the next one.
C5_Witness ==
  /\ run.phase = "running"
  /\ run.total > run.concurrency
  /\ run.concurrency >= 2
  /\ run.done >= 1
  /\ run.i > run.concurrency
  /\ Cardinality(InFlight) = run.concurrency

\* C5 witness of the unlimited case: k > N, all N in flight, none settled
C5_WitnessUnlimited ==
  /\ run.phase = "running"
  /\ run.concurrency > run.total
  /\ run.total >= 2
  /\ run.done = 0
  /\ InFlight = 1..run.total

\* C6: every task is started at most once; the run resolves (it never
\* rejects) only after every task was started once and has settled, with one
\* slot per task in input order, slot i holding the outcome of task i; an
\* empty task list resolves with an empty array and starts nothing.
C6_SettleAllInOrder ==
  /\ \A t \in 1..run.total : run.starts[t] <= 1
  /\ run.phase = "resolved" =>
       /\ \A t \in 1..run.total : run.starts[t] = 1 /\ run.status[t] \in TaskOutcomes
       /\ Len(run.value) = run.total
       /\ \A t \in 1..run.total : run.value[t] = run.status[t]
       /\ run.done = run.total
  /\ run.phase # "rejected"

\* C6 witness: a resolved run of more tasks than workers in which a later
\* task settled before an earlier one and a task rejected.
C6_Witness ==
  /\ run.phase = "resolved"
  /\ run.total > run.concurrency
  /\ run.total >= 3
  /\ \E t \in 1..run.total : run.value[t] = "rejected"
  /\ \E t \in 1..run.total : run.value[t] = "fulfilled"

\* C6 witness of the empty case
C6_WitnessEmpty ==
  /\ run.phase = "resolved" /\ run.total = 0 /\ run.value = << >> /\ run.i = 0

(***************************************************************************)
(* Prefetch scheduler: schedulePrefetchAll (lines 330-353)                 *)
(***************************************************************************)
schedulePrefetchAll_keepOld(timer, r, framesToPrefetch, t) ==
  IF r = Null \/ Len(framesToPrefetch) = 0 THEN timer
  ELSE IF timer # Null THEN timer
  ELSE [due |-> t + PREFETCH_DEBOUNCE_MS, r |-> r, frames |-> framesToPrefetch]

\* lines 331-334 and 352: return early without a viewport or frames; else
\* clear the pending timer and arm a new one for (r, framesToPrefetch).
\* The value is the new content of prefetchDebounce (Null: no timer pending).
schedulePrefetchAll(timer, r, framesToPrefetch, t) ==
  IF r = Null \/ Len(framesToPrefetch) = 0 THEN timer
  ELSE [due |-> t + PREFETCH_DEBOUNCE_MS, r |-> r, frames |-> framesToPrefetch]

\* lines 335-351: the timer's callback builds the task list of the batch
PrefetchAllBatch(timer) ==
  [kind |-> "all", r |-> timer.r, frames |-> timer.frames, sig |-> Null,
   progressAtPress |-> <<0, 1>>]

(***************************************************************************)
(* Frame timeline helpers                                                  *)
(***************************************************************************)
RECURSIVE LowerBound(_, _, _, _)
\* line 125: while (lo < hi) { mid = (lo + hi) >> 1; ... }  (0-based indices)
LowerBound(fs, target, lo, hi) ==
  IF lo < hi
    THEN LET mid == (lo + hi) \div 2
         IN IF fs[mid + 1] < target THEN LowerBound(fs, target, mid + 1, hi)
            ELSE LowerBound(fs, target, lo, mid)
    ELSE lo

closestFrameIndex_lowerBound(fs, target) ==
  IF Len(fs) = 0 THEN -1 ELSE LowerBound(fs, target, 0, Len(fs) - 1)

\* closestFrameIndex (lines 122-128), 0-based result, -1 for an empty list
closestFrameIndex(fs, target) ==
  IF Len(fs) = 0 THEN -1
  ELSE LET lo == LowerBound(fs, target, 0, Len(fs) - 1)
           a == lo
           b == Max(0, lo - 1)
       IN IF Abs(fs[a + 1] - target) < Abs(fs[b + 1] - target) THEN a ELSE b

RECURSIVE FilterWindow(_, _, _)
FilterWindow(fs, lo, hi) ==
  IF fs = << >> THEN << >>
  ELSE IF Head(fs) >= lo /\ Head(fs) <= hi
         THEN <<Head(fs)>> \o FilterWindow(Tail(fs), lo, hi)
         ELSE FilterWindow(Tail(fs), lo, hi)

WindowOf_keepOldest(fs, nowSec) ==
  LET w == FilterWindow(fs, nowSec - 120 * 60, nowSec)
  IN IF Len(w) <= MAX_FRAMES_TO_CACHE THEN w
     ELSE SubSeq(w, 1, MAX_FRAMES_TO_CACHE)

\* the useMemo of lines 307-312: frames of the last 120 minutes up to now,
\* then .slice(-MAX_FRAMES_TO_CACHE)
WindowOf(fs, nowSec) ==
  LET w == FilterWindow(fs, nowSec - 120 * 60, nowSec)
  IN IF Len(w) <= MAX_FRAMES_TO_CACHE THEN w
     ELSE SubSeq(w, Len(w) - MAX_FRAMES_TO_CACHE + 1, Len(w))

\* !ts of the source: undefined and 0 are falsy
Falsy(ts) == ts = Undefined \/ ts = 0

\* Math.round(v / 2) for v in half units: floor(v / 2 + 1/2)
RoundHalf(v) == (v + 1) \div 2

\* warmSignature (lines 388-393); the viewport's coordinates are rounded to
\* 0.001 degree
warmSignature(r, framesList, tileSize) ==
  IF r = Null \/ Len(framesList) = 0 THEN Null
  ELSE [tileSize |-> tileSize, z |-> zClamp(r), first |-> framesList[1],
        last |-> framesList[Len(framesList)],
        lat |-> RoundHalf(r.latitude), lon |-> RoundHalf(r.longitude)]

(***************************************************************************)
(* Batches.  A batch is one run of runWithConcurrency over prefetchUrlOnce *)
(* tasks: "all" (debounced viewport prefetch, line 351), "handoff" (the    *)
(* desired frame's neighbourhood, line 379) or "warm" (line 414).  The     *)
(* run resolves when every task has settled, whatever the outcomes, and    *)
(* has by then reported progress (total, total) (see SpecRunner).          *)
(***************************************************************************)
\* how the platform prefetch answers the tasks of a batch
BatchOutcomes == {"allOk", "allFail"}

OutcomeOfTask(pattern, j) ==
  CASE pattern = "allOk" -> "true"
    [] pattern = "allFail" -> IF j % 2 = 1 THEN "false" ELSE "reject"

NewBatch_warmFirstFrame(kind, r, framesList, sig, progressAtPress) ==
  [kind |-> kind, r |-> r,
   frames |-> IF kind = "warm" THEN <<framesList[1]>> ELSE framesList,
   sig |-> sig, progressAtPress |-> progressAtPress]

\* a batch in flight: its viewport and frames, and for a warm pass the
\* signature and the warmProgress that the onPressPlay closure holds
NewBatch(kind, r, framesList, sig, progressAtPress) ==
  [kind |-> kind, r |-> r, frames |-> framesList, sig |-> sig,
   progressAtPress |-> progressAtPress]

BatchUrls(b) == FrameUrls(b.r, b.frames)

RECURSIVE RunTasks(_, _, _, _)
\* the tasks () => prefetchUrlOnce(url) of a batch, run to completion
RunTasks(cache, urls, pattern, j) ==
  IF j > Len(urls) THEN cache
  ELSE IF prefetchUrlOnce_hit(cache, urls[j])
    THEN RunTasks(cache, urls, pattern, j + 1)
    ELSE RunTasks(prefetchUrlOnce_settle(cache, urls[j], OutcomeOfTask(pattern, j)).cache,
                  urls, pattern, j + 1)

(***************************************************************************)
(* Renders and effects.  After a handler's state updates React renders and *)
(* runs the effects whose dependencies changed, in source order; the       *)
(* updates they queue cause the next render, until nothing changes.  S is  *)
(* the component state of the render, P the dependency values of the       *)
(* render before it; winChanged / regChanged tell that windowFrames /      *)
(* region is a new object (a new array or Region is never Object.is-equal  *)
(* to the old one).                                                        *)
(***************************************************************************)
DepsOf(S) == [frameIdx |-> S.frameIdx, desiredTs |-> S.desiredTs,
              region |-> S.region, isPlaying |-> S.isPlaying,
              winLen |-> Len(S.windowFrames)]

\* effect of lines 315-320 (deps [windowFrames]): value queued for frameIdx
KeepFrameIdxValid(S, winChanged) ==
  IF winChanged /\ Len(S.windowFrames) > 0
    THEN Max(0, Min(closestFrameIndex(S.windowFrames, S.now), Len(S.windowFrames) - 1))
    ELSE S.frameIdx

CommitDesiredTs_onWindowOnly(P, S, winChanged) ==
  IF winChanged /\ Len(S.windowFrames) > 0
    THEN S.windowFrames[Max(0, Min(S.frameIdx, Len(S.windowFrames) - 1)) + 1]
    ELSE S.desiredTs

\* effect of lines 323-327 (deps [frameIdx, windowFrames]): value queued for desiredTs
CommitDesiredTs(P, S, winChanged) ==
  IF (winChanged \/ S.frameIdx # P.frameIdx) /\ Len(S.windowFrames) > 0
    THEN S.windowFrames[Max(0, Min(S.frameIdx, Len(S.windowFrames) - 1)) + 1]
    ELSE S.desiredTs

\* effect of line 356 (deps [region, windowFrames])
PrefetchOnChange(S, winChanged, regChanged) ==
  IF winChanged \/ regChanged
    THEN schedulePrefetchAll(S.prefetchDebounce, S.region, S.windowFrames, 0)
    ELSE S.prefetchDebounce

HandoffRuns(P, S, regChanged) == regChanged \/ S.desiredTs # P.desiredTs

HandoffEffect_waitsForRegion(P, S, regChanged) ==
  IF ~HandoffRuns(P, S, regChanged)
    THEN [activeTs |-> S.activeTs, isLoadingFrame |-> S.isLoadingFrame, started |-> EmptyBag]
    ELSE
      LET cleaned == IF ~Falsy(P.desiredTs) /\ P.region # Null THEN FALSE
                     ELSE S.isLoadingFrame
      IN IF Falsy(S.desiredTs) \/ S.region = Null
           THEN [activeTs |-> S.activeTs, isLoadingFrame |-> cleaned, started |-> EmptyBag]
         ELSE [activeTs |-> S.activeTs, isLoadingFrame |-> TRUE,
               started |-> SetToBag({NewBatch("handoff", S.region, <<S.desiredTs>>, Null, <<0, 1>>)})]

\* effect of lines 359-385 (deps [desiredTs, region]): first the cleanup the
\* previous run returned (line 384), then the body; the batch it starts
\* carries the desiredTs of this render (the closure of lines 379-382)
HandoffEffect(P, S, regChanged) ==
  IF ~HandoffRuns(P, S, regChanged)
    THEN [activeTs |-> S.activeTs, isLoadingFrame |-> S.isLoadingFrame, started |-> EmptyBag]
    ELSE
      LET cleaned == IF ~Falsy(P.desiredTs) /\ P.region # Null THEN FALSE
                     ELSE S.isLoadingFrame
      IN IF Falsy(S.desiredTs)
           THEN [activeTs |-> S.activeTs, isLoadingFrame |-> cleaned, started |-> EmptyBag]
         ELSE IF S.region = Null
           THEN [activeTs |-> S.desiredTs, isLoadingFrame |-> cleaned, started |-> EmptyBag]
         ELSE [activeTs |-> S.activeTs, isLoadingFrame |-> TRUE,
               started |-> SetToBag({NewBatch("handoff", S.region, <<S.desiredTs>>, Null, <<0, 1>>)})]

\* if (animTimer.current) { clearInterval(animTimer.current);
\* animTimer.current = null; } (lines 426-427, 429, 438-439), on the pair t of
\* the ref and the number of live intervals
clearAnimTimer(t) ==
  IF t.ref THEN [ref |-> FALSE, live |-> t.live - 1] ELSE t

PlaybackTimerEffect_leak(P, S) ==
  LET t0 == [ref |-> S.animTimer, live |-> S.liveIntervals]
  IN IF S.isPlaying = P.isPlaying /\ Len(S.windowFrames) = P.winLen THEN t0
     ELSE IF ~S.isPlaying \/ Len(S.windowFrames) < 2
       THEN [ref |-> FALSE, live |-> t0.live]
     ELSE [ref |-> TRUE, live |-> t0.live + 1]

\* effect of lines 424-441 (deps [isPlaying, windowFrames.length]): the cleanup
\* its last run returned (it returned one if it created an interval), then
\* its body
PlaybackTimerEffect(P, S) ==
  LET t0 == [ref |-> S.animTimer, live |-> S.liveIntervals]
  IN IF S.isPlaying = P.isPlaying /\ Len(S.windowFrames) = P.winLen THEN t0
     ELSE LET t1 == IF P.isPlaying /\ P.winLen >= 2 THEN clearAnimTimer(t0) ELSE t0
          IN IF ~S.isPlaying \/ Len(S.windowFrames) < 2
               THEN clearAnimTimer(t1)
             ELSE [ref |-> TRUE, live |-> clearAnimTimer(t1).live + 1]

\* the effects of one committed render, in source order: the state with the
\* updates they queued
RunEffects(P, S, winChanged, regChanged) ==
  LET h == HandoffEffect(P, S, regChanged)
      t == PlaybackTimerEffect(P, S)
  IN [S EXCEPT !.frameIdx = KeepFrameIdxValid(S, winChanged),
               !.desiredTs = CommitDesiredTs(P, S, winChanged),
               !.prefetchDebounce = PrefetchOnChange(S, winChanged, regChanged),
               !.activeTs = h.activeTs,
               !.isLoadingFrame = h.isLoadingFrame,
               !.batches = S.batches (+) h.started,
               !.animTimer = t.ref,
               !.liveIntervals = t.live]

RECURSIVE Render(_, _, _, _)
\* render S, run its effects, render again while they changed something
Render(P, S, winChanged, regChanged) ==
  LET T == RunEffects(P, S, winChanged, regChanged)
  IN IF T = S THEN S ELSE Render(DepsOf(S), T, FALSE, FALSE)

RECURSIVE RenderTrail(_, _, _, _)
\* what the renders of that cascade showed: <<frameIdx, windowFrames.length>>
\* of S and of every re-render after it
RenderTrail(P, S, winChanged, regChanged) ==
  LET T == RunEffects(P, S, winChanged, regChanged)
  IN {<<S.frameIdx, Len(S.windowFrames)>>} \cup
       (IF T = S THEN {} ELSE RenderTrail(DepsOf(S), T, FALSE, FALSE))

(***************************************************************************)
(* The MapScreen component: state after mount, handlers, timers            *)
(***************************************************************************)
\* Date.now() / 1000 while the model runs: the provider's frames are given
\* relative to it (older than two hours, recent, equally near, in the future)
NowSec == 10000

InitScreen ==
  /\ frames = << >>
  /\ windowFrames = << >>
  /\ frameIdx = 0
  /\ pendingIdx = Undefined
  /\ activeTs = Undefined
  /\ desiredTs = Undefined
  /\ region = Null
  /\ isLoadingFrame = FALSE
  /\ isPlaying = FALSE
  /\ warming = FALSE
  /\ warmProgress = <<0, 1>>
  /\ lastWarmSig = Null
  /\ animTimer = FALSE
  /\ liveIntervals = 0
  /\ mounted = TRUE
  /\ batches = EmptyBag
  /\ now = NowSec
  /\ attempted = {}
  /\ warmed = Null
  /\ renders = {<<0, 0>>}


\* the values a time field of the provider's JSON can hold
JsNum(n) == [type |-> "number", v |-> n]
JsStr(str) == [type |-> "string", s |-> str]
JsNull == [type |-> "null"]
JsUndefined == [type |-> "undefined"]

\* an entry of radar.past / radar.nowcast with the time field t; a missing
\* field reads as undefined
Entry(t) == [time |-> t]
Frame(n) == Entry(JsNum(n))

\* Number(x) (line 285): a number, or NaN
ToNumber(x) ==
  CASE x.type = "number" -> [finite |-> TRUE, v |-> x.v]
    [] x.type = "undefined" -> [finite |-> FALSE]
    [] x.type = "null" -> [finite |-> TRUE, v |-> 0]
    [] x.type = "string" ->
         IF x.s = "" THEN [finite |-> TRUE, v |-> 0]
         ELSE IF x.s = "9985" THEN [finite |-> TRUE, v |-> 9985]
         ELSE [finite |-> FALSE]

\* what the frame-list provider answers: a failure, or past and nowcast entries
ProviderResponses ==
  { [ok |-> FALSE, past |-> << >>, nowcast |-> << >>],
    [ok |-> TRUE,  past |-> << >>, nowcast |-> << >>],
    [ok |-> TRUE,  past |-> <<Frame(2000), Frame(9980), Frame(9990)>>,
                   nowcast |-> <<Frame(10010)>>],
    [ok |-> TRUE,  past |-> <<Frame(9990), Entry(JsUndefined)>>,
                   nowcast |-> <<Frame(10010)>>] }

RECURSIVE InsertSorted(_, _)
InsertSorted(fs, n) ==
  IF fs = << >> THEN <<n>>
  ELSE IF n < Head(fs) THEN <<n>> \o fs
  ELSE <<Head(fs)>> \o InsertSorted(Tail(fs), n)

RECURSIVE SortAsc(_)
\* .sort((a, b) => a - b)
SortAsc(fs) == IF fs = << >> THEN << >> ELSE InsertSorted(SortAsc(Tail(fs)), Head(fs))

RECURSIVE FiniteTimes(_)
\* lines 285-286: .map((f) => Number(f?.time)).filter((n) => Number.isFinite(n))
FiniteTimes(entries) ==
  IF entries = << >> THEN << >>
  ELSE LET n == ToNumber(Head(entries).time)
       IN (IF n.finite THEN <<n.v>> ELSE << >>) \o FiniteTimes(Tail(entries))

\* lines 284-287: merged = [...past, ...nowcast].map(...).filter(...).sort(...)
MergedFrames(resp) == SortAsc(FiniteTimes(resp.past \o resp.nowcast))

Cur ==
  [frames |-> frames, windowFrames |-> windowFrames, frameIdx |-> frameIdx,
   desiredTs |-> desiredTs, activeTs |-> activeTs, region |-> region,
   isLoadingFrame |-> isLoadingFrame, isPlaying |-> isPlaying,
   animTimer |-> animTimer, liveIntervals |-> liveIntervals,
   prefetchDebounce |-> prefetchDebounce,
   batches |-> batches, now |-> now]

\* the component state after the renders and effects a handler caused
Commit(T) ==
  /\ BagCardinality(T.batches) <= MaxBatches
  /\ frames' = T.frames
  /\ windowFrames' = T.windowFrames
  /\ frameIdx' = T.frameIdx
  /\ desiredTs' = T.desiredTs
  /\ activeTs' = T.activeTs
  /\ region' = T.region
  /\ isLoadingFrame' = T.isLoadingFrame
  /\ isPlaying' = T.isPlaying
  /\ animTimer' = T.animTimer
  /\ liveIntervals' = T.liveIntervals
  /\ prefetchDebounce' = T.prefetchDebounce
  /\ batches' = T.batches

\* a handler's state updates are committed: S is rendered, its effects run,
\* and so on until a render's effects change nothing
CommitRender(P, S, winChanged, regChanged) ==
  /\ Commit(Render(P, S, winChanged, regChanged))
  /\ renders' = RenderTrail(P, S, winChanged, regChanged)

Others == <<cacheVars, runnerVars, debounceVars, mounted, appVars>>

\* the activeTs that fetchFrames reads is the one of the render that created
\* it: the effect of lines 276-304 has deps [], so it is the mount's closure
fetchFrames_activeTs == Undefined

FetchFramesState_emptyClears(S, resp) ==
  IF ~resp.ok THEN S
  ELSE LET merged == MergedFrames(resp)
       IN LET S1 == [S EXCEPT !.frames = merged,
                              !.windowFrames = WindowOf(merged, S.now)]
              idx == closestFrameIndex(merged, S.now)
              ts == IF idx >= 0 THEN merged[idx + 1] ELSE Undefined
          IN IF fetchFrames_activeTs = Undefined
               THEN [S1 EXCEPT !.activeTs = ts, !.desiredTs = ts,
                               !.frameIdx = Max(0, idx)]
               ELSE S1

\* fetchFrames (lines 277-300), from the provider's answer on
FetchFramesState(S, resp) ==
  IF ~resp.ok THEN S
  ELSE LET merged == MergedFrames(resp)
       IN IF Len(merged) = 0 THEN S
          ELSE LET S1 == [S EXCEPT !.frames = merged,
                                   !.windowFrames = WindowOf(merged, S.now)]
                   idx == closestFrameIndex(merged, S.now)
                   ts == IF idx >= 0 THEN merged[idx + 1] ELSE Undefined
               IN IF fetchFrames_activeTs = Undefined
                    THEN [S1 EXCEPT !.activeTs = ts, !.desiredTs = ts,
                                    !.frameIdx = Max(0, idx)]
                    ELSE S1

\* the initial call of fetchFrames or one of the 3-minute interval (lines
\* 301-302) gets its answer
FetchFrames(resp) ==
  /\ mounted
  /\ LET S1 == FetchFramesState(Cur, resp)
         changed == resp.ok /\ Len(MergedFrames(resp)) > 0
     IN CommitRender(DepsOf(Cur), S1, changed, FALSE)
  /\ lastOp' = [op |-> "fetchFrames", ok |-> resp.ok /\ Len(MergedFrames(resp)) > 0]
  /\ UNCHANGED <<tileCache, pendingIdx, warming, warmProgress, lastWarmSig, now,
                 attempted, warmed, Others>>

\* onRegionChangeComplete={(r) => setRegion(r)} (line 550)
RegionChange(r) ==
  /\ mounted
  /\ CommitRender(DepsOf(Cur), [Cur EXCEPT !.region = r], FALSE, TRUE)
  /\ lastOp' = [op |-> "setRegion"]
  /\ UNCHANGED <<tileCache, pendingIdx, warming, warmProgress, lastWarmSig, now,
                 attempted, warmed, Others>>

SliderChange_commits(n) ==
  /\ mounted
  /\ Len(windowFrames) > 0
  /\ pendingIdx' = n
  /\ CommitRender(DepsOf(Cur), [Cur EXCEPT !.frameIdx = n], FALSE, FALSE)
  /\ lastOp' = [op |-> "onValueChange"]
  /\ UNCHANGED <<tileCache, warming, warmProgress, lastWarmSig, now,
                 attempted, warmed, Others>>

\* Slider onValueChange (line 694): the thumb is dragged to n
SliderChange(n) ==
  /\ mounted
  /\ Len(windowFrames) > 0
  /\ pendingIdx' = n
  /\ renders' = {<<frameIdx, Len(windowFrames)>>}
  /\ lastOp' = [op |-> "onValueChange"]
  /\ UNCHANGED <<tileCache, frames, windowFrames, frameIdx, activeTs, desiredTs,
                 region, isLoadingFrame, isPlaying, warming, warmProgress,
                 lastWarmSig, animTimer, liveIntervals, prefetchDebounce,
                 batches, now, attempted, warmed, Others>>

onSlidingComplete_keepPlaying(S, idx) == [S EXCEPT !.frameIdx = idx]

\* lines 697-699 of onSlidingComplete: setIsPlaying(false); setFrameIdx(idx)
onSlidingComplete(S, idx) == [S EXCEPT !.isPlaying = FALSE, !.frameIdx = idx]

\* Slider onSlidingComplete (lines 695-700): the drag is committed at n
SliderComplete(n) ==
  /\ mounted
  /\ Len(windowFrames) > 0
  /\ pendingIdx' = Undefined
  /\ CommitRender(DepsOf(Cur), onSlidingComplete(Cur, n), FALSE, FALSE)
  /\ lastOp' = [op |-> "onSlidingComplete", idx |-> n, playing |-> isPlaying,
                dragged |-> pendingIdx # Undefined]
  /\ UNCHANGED <<tileCache, warming, warmProgress, lastWarmSig, now,
                 attempted, warmed, Others>>

NextFrameIdx_noWrap(prev, n) == prev + 1

\* lines 432-435: setFrameIdx(prev => prev >= last ? 0 : prev + 1), with
\* last = windowFrames.length - 1 and n the length the interval's closure holds
NextFrameIdx(prev, n) ==
  LET last == n - 1
  IN IF prev >= last THEN 0 ELSE prev + 1

\* an interval that setInterval created and nothing cleared ticks (lines
\* 431-436); React drops the update of a component that is unmounted
PlaybackTick ==
  /\ liveIntervals > 0
  /\ LET next == NextFrameIdx(frameIdx, Len(windowFrames))
         S1 == IF mounted THEN [Cur EXCEPT !.frameIdx = next] ELSE Cur
     IN CommitRender(DepsOf(Cur), S1, FALSE, FALSE)
  /\ lastOp' = [op |-> "tick"]
  /\ UNCHANGED <<tileCache, pendingIdx, warming, warmProgress, lastWarmSig, now,
                 attempted, warmed, Others>>

\* the debounce timer of schedulePrefetchAll fires (lines 334-352)
PrefetchTimerFire ==
  /\ prefetchDebounce # Null
  /\ BagCardinality(batches) < MaxBatches
  /\ batches' = batches (+) SetToBag({PrefetchAllBatch(prefetchDebounce)})
  /\ prefetchDebounce' = Null
  /\ renders' = {}
  /\ lastOp' = [op |-> "prefetchTimer"]
  /\ UNCHANGED <<tileCache, frames, windowFrames, frameIdx, pendingIdx, activeTs,
                 desiredTs, region, isLoadingFrame, isPlaying, warming,
                 warmProgress, lastWarmSig, animTimer, liveIntervals, now,
                 attempted, warmed, Others>>

onPressPlay_neverRecord(sig) == Null

\* line 515: lastWarmSig.current = sig
onPressPlay_record(sig) == sig

\* onPressPlay (lines 506-517) up to the await inside warmPlaybackCache
\* (line 414); the button is disabled without frames and while warming
PressPlay ==
  /\ mounted
  /\ Len(windowFrames) > 0 /\ ~warming
  /\ LET sig == warmSignature(region, windowFrames, TILE_SIZE)
     IN IF region = Null \/ Len(windowFrames) < 2
          THEN /\ renders' = {}
               /\ UNCHANGED <<frames, windowFrames, frameIdx, activeTs, desiredTs,
                           region, isLoadingFrame, isPlaying, warming, warmProgress,
                           animTimer, liveIntervals, prefetchDebounce, batches>>
        ELSE IF sig # Null /\ sig = lastWarmSig
          THEN /\ CommitRender(DepsOf(Cur), [Cur EXCEPT !.isPlaying = ~isPlaying],
                                FALSE, FALSE)
               /\ UNCHANGED <<warming, warmProgress>>
        ELSE /\ CommitRender(DepsOf(Cur),
                   [Cur EXCEPT !.isPlaying = FALSE,
                               !.batches = batches (+) SetToBag(
                                  {NewBatch("warm", region, windowFrames, sig, warmProgress)})],
                   FALSE, FALSE)
             /\ warming' = TRUE
             /\ warmProgress' = <<0, 1>>
  /\ lastOp' = [op |-> "onPressPlay"]
  /\ UNCHANGED <<tileCache, pendingIdx, lastWarmSig, now, attempted, warmed, Others>>

\* progress >= WARM_START_THRESHOLD for progress = <<done, total>>
AtLeastThreshold(progress) ==
  progress[1] * 100 >= WARM_START_THRESHOLD_PCT * progress[2]

AfterBatch_noSwap(S, b) ==
  CASE b.kind = "all" -> S
    [] b.kind = "handoff" -> [S EXCEPT !.isLoadingFrame = FALSE]
    [] b.kind = "warm" ->
         IF AtLeastThreshold(b.progressAtPress) THEN [S EXCEPT !.isPlaying = TRUE] ELSE S

\* what follows the run of a batch (lines 379-382; 419-420 and 515-516); the
\* run has reported progress (total, total) by then
AfterBatch(S, b) ==
  CASE b.kind = "all" -> S
    [] b.kind = "handoff" -> [S EXCEPT !.activeTs = b.frames[1], !.isLoadingFrame = FALSE]
    [] b.kind = "warm" ->
         IF AtLeastThreshold(b.progressAtPress) THEN [S EXCEPT !.isPlaying = TRUE] ELSE S

\* a batch b in flight settles: every task of it has run, answered by the
\* platform according to pattern; React drops the state updates of a
\* component that is unmounted
BatchSettle(b, pattern) ==
  /\ BagIn(b, batches)
  /\ LET S0 == [Cur EXCEPT !.batches = batches (-) SetToBag({b})]
         S1 == IF mounted THEN AfterBatch(S0, b) ELSE S0
     IN /\ tileCache' = RunTasks(tileCache, BatchUrls(b), pattern, 1)
        /\ CommitRender(DepsOf(Cur), S1, FALSE, FALSE)
        /\ attempted' = attempted \cup {b.frames[j] : j \in 1..Len(b.frames)}
        /\ IF b.kind = "warm"
             THEN /\ warming' = (IF mounted THEN FALSE ELSE warming)
                  /\ warmProgress' = (IF mounted THEN <<1, 1>> ELSE warmProgress)
                  /\ lastWarmSig' = onPressPlay_record(b.sig)
                  /\ warmed' = [r |-> b.r, frames |-> b.frames]
             ELSE UNCHANGED <<warming, warmProgress, lastWarmSig, warmed>>
        /\ lastOp' = [op |-> "settle", kind |-> b.kind, pattern |-> pattern]
  /\ UNCHANGED <<pendingIdx, now, Others>>

Next ==
  \/ \E resp \in ProviderResponses : FetchFrames(resp)
  \/ \E r \in Regions : RegionChange(r)
  \/ \E n \in 0..(Len(windowFrames) - 1) : SliderComplete(n)
  \/ PlaybackTick
  \/ PrefetchTimerFire
  \/ PressPlay
  \/ \E b \in BagToSet(batches), pattern \in BatchOutcomes : BatchSettle(b, pattern)

Unmount_clearsCache ==
  /\ mounted
  /\ mounted' = FALSE
  /\ tileCache' = {}
  /\ LET t0 == [ref |-> animTimer, live |-> liveIntervals]
         t == IF isPlaying /\ Len(windowFrames) >= 2 THEN clearAnimTimer(t0) ELSE t0
     IN animTimer' = t.ref /\ liveIntervals' = t.live
  /\ renders' = {}
  /\ lastOp' = [op |-> "unmount", playing |-> isPlaying]
  /\ UNCHANGED <<frames, windowFrames, frameIdx, pendingIdx, activeTs,
                 desiredTs, region, isLoadingFrame, isPlaying, warming,
                 warmProgress, lastWarmSig, prefetchDebounce, batches, now,
                 attempted, warmed, cacheVars, runnerVars, debounceVars, appVars>>

\* the screen is torn down: React runs the cleanups of its effects; the one
\* of the playback effect (lines 438-440) exists if the effect's last run
\* created an interval.  The cleanup of line 303 ends the refresh interval;
\* nothing clears the debounce timer or the batches in flight.
Unmount ==
  /\ mounted
  /\ mounted' = FALSE
  /\ LET t0 == [ref |-> animTimer, live |-> liveIntervals]
         t == IF isPlaying /\ Len(windowFrames) >= 2 THEN clearAnimTimer(t0) ELSE t0
     IN animTimer' = t.ref /\ liveIntervals' = t.live
  /\ renders' = {}
  /\ lastOp' = [op |-> "unmount", playing |-> isPlaying]
  /\ UNCHANGED <<tileCache, frames, windowFrames, frameIdx, pendingIdx, activeTs,
                 desiredTs, region, isLoadingFrame, isPlaying, warming,
                 warmProgress, lastWarmSig, prefetchDebounce, batches, now,
                 attempted, warmed, cacheVars, runnerVars, debounceVars, appVars>>

\* the screen with its teardown in view
NextTeardown ==
  \/ \E resp \in ProviderResponses : FetchFrames(resp)
  \/ \E r \in Regions : RegionChange(r)
  \/ \E n \in 0..(Len(windowFrames) - 1) : SliderComplete(n)
  \/ PlaybackTick
  \/ PrefetchTimerFire
  \/ PressPlay
  \/ \E b \in BagToSet(batches), pattern \in BatchOutcomes : BatchSettle(b, pattern)
  \/ Unmount

\* the screen with the slider's drag (pendingIdx) in view; the tiles answer
NextSlider ==
  \/ \E resp \in ProviderResponses : FetchFrames(resp)
  \/ \E r \in Regions : RegionChange(r)
  \/ \E n \in 0..(Len(windowFrames) - 1) : SliderChange(n)
  \/ \E n \in 0..(Len(windowFrames) - 1) : SliderComplete(n)
  \/ PlaybackTick
  \/ PrefetchTimerFire
  \/ PressPlay
  \/ \E b \in BagToSet(batches) : BatchSettle(b, "allOk")

(***************************************************************************)
(* Properties of the screen (specification Spec)                           *)
(***************************************************************************)
\* C1: whenever a viewport is known, activeTs is only ever set to a timestamp
\* after a prefetch batch covering that timestamp has run and settled: a step
\* taken with a viewport known that changes activeTs sets it to a timestamp
\* some settled batch has covered.
C1_ActiveOnlyAfterAttempt ==
  [][(region # Null /\ activeTs' # activeTs) => activeTs' \in attempted']_vars

WarmedForCurrent ==
  warmed # Null /\ region = warmed.r /\ windowFrames = warmed.frames

\* C8: when a warm pass has completed and Play is pressed again with the same
\* viewport and the same frame window, the press starts no batch, leaves the
\* cache alone and changes nothing except isPlaying, which it toggles (and
\* the playback interval that follows isPlaying).
C8_SecondPressOnlyToggles ==
  [][(lastOp'.op = "onPressPlay" /\ ~warming /\ WarmedForCurrent)
      => /\ isPlaying' = ~isPlaying
         /\ batches' = batches
         /\ animTimer' = isPlaying'
         /\ UNCHANGED <<tileCache, frames, windowFrames, frameIdx, pendingIdx,
                        activeTs, desiredTs, region, isLoadingFrame, warming,
                        warmProgress, lastWarmSig, prefetchDebounce, warmed,
                        attempted>>]_vars

\* C8 witness: Play was pressed with the viewport and window of the completed
\* warm pass and playback is on (a press that warms leaves isPlaying off).
C8_Witness ==
  /\ lastOp.op = "onPressPlay"
  /\ WarmedForCurrent
  /\ ~warming
  /\ isPlaying
  /\ BagCardinality(batches) = 0

\* C9: when a warm pass started by onPressPlay has completed, playback has
\* been started exactly if the progress that pass achieved (completed tasks
\* over total tasks, what warmProgress holds at that point) is at least
\* WARM_START_THRESHOLD.
C9_StartIffProgressReached ==
  (lastOp.op = "settle" /\ lastOp.kind = "warm")
    => (isPlaying <=> AtLeastThreshold(warmProgress))

\* C10: a successful refresh that finds the cursor initialised (activeTs set
\* by an earlier refresh) and frameIdx just chosen by the user or reached by
\* playback keeps that frameIdx if it is in bounds of the new window, and
\* does not overwrite activeTs or desiredTs (compared where the window's
\* content is the same, so that no effect has reason to move them).
C10_RefreshKeepsCursor ==
  [][(lastOp'.op = "fetchFrames" /\ lastOp'.ok /\ activeTs # Undefined
        /\ lastOp.op \in {"onSlidingComplete", "tick"}
        /\ frameIdx < Len(windowFrames'))
      => /\ frameIdx' = frameIdx
         /\ windowFrames' = windowFrames
              => (activeTs' = activeTs /\ desiredTs' = desiredTs)]_vars

\* C11: whenever the window is non-empty, 0 <= frameIdx < windowFrames.length,
\* in every render the screen commits: the one that follows a handler's
\* updates (the seed of a refresh, a slider commit, a playback tick, a new
\* window) and the re-renders after its effects.
C11_FrameIdxInBounds ==
  \A p \in renders \cup {<<frameIdx, Len(windowFrames)>>} :
    p[2] > 0 => (0 <= p[1] /\ p[1] < p[2])

\* C12: a playback tick happens only while playing with a window of n >= 2
\* frames, and sets frameIdx to frameIdx + 1 when frameIdx < n - 1 and to 0
\* otherwise: the new index is below n, and is either one more than the old
\* one or 0.
C12_TickAdvancesAndWraps ==
  [][lastOp'.op = "tick"
      => /\ isPlaying /\ Len(windowFrames) >= 2
         /\ windowFrames' = windowFrames
         /\ frameIdx' = (IF frameIdx < Len(windowFrames) - 1 THEN frameIdx + 1 ELSE 0)
         /\ frameIdx' < Len(windowFrames)]_vars

\* C12 witness: a tick has wrapped the index of a two-frame window to 0
C12_Witness ==
  /\ lastOp.op = "tick"
  /\ isPlaying
  /\ Len(windowFrames) = 2
  /\ frameIdx = 0
  /\ desiredTs = windowFrames[1]

\* C13: whenever the window has fewer than 2 frames the playback clock is
\* stopped: no interval is running (so no tick advances frameIdx) and
\* isPlaying is false, also when the window has just shrunk below 2 frames
\* while playing.
C13_StoppedBelowTwoFrames ==
  Len(windowFrames) < 2 => (~animTimer /\ ~isPlaying)

C21_FailedRefreshChangesNothing ==
  [][(lastOp'.op = "fetchFrames" /\ ~lastOp'.ok)
      => UNCHANGED <<frames, windowFrames, frameIdx, desiredTs, activeTs,
                     pendingIdx, region, isLoadingFrame, isPlaying, warming,
                     warmProgress, lastWarmSig, animTimer, prefetchDebounce,
                     batches, tileCache>>]_vars

\* C21 witness: a refresh has failed after an earlier one had delivered
\* frames and the cursor had been moved off the seed
C21_Witness ==
  /\ lastOp.op = "fetchFrames" /\ ~lastOp.ok
  /\ Len(frames) = 4 /\ Len(windowFrames) = 2
  /\ frameIdx = 0
  /\ desiredTs = windowFrames[1] /\ activeTs = windowFrames[2]

\* a batch in flight has been superseded: the viewport or desiredTs (for the
\* full-window prefetch: the window) is no longer the one it was started for,
\* or a newer full-window prefetch is scheduled
Superseded(b) ==
  \/ b.r # region
  \/ b.kind = "handoff" /\ b.frames # <<desiredTs>>
  \/ b.kind = "all" /\ (b.frames # windowFrames \/ prefetchDebounce # Null)

\* C22: a superseded batch is not cancelled; when it settles, nothing changes
\* except the cache, which gains URLs only.
C22_StaleBatchOnlyFillsCache ==
  [][\A b \in BagToSet(batches) :
        (/\ lastOp'.op = "settle"
         /\ CopiesIn(b, batches') < CopiesIn(b, batches)
         /\ b.kind \in {"handoff", "all"}
         /\ Superseded(b))
        => /\ tileCache \subseteq tileCache'
           /\ UNCHANGED <<frames, windowFrames, frameIdx, pendingIdx, activeTs,
                          desiredTs, region, isLoadingFrame, isPlaying, warming,
                          warmProgress, lastWarmSig, animTimer, prefetchDebounce>>]_vars

\* C23: onProgress is invoked once per settled task, fulfilled or rejected:
\* the invocations so far are (1, N), (2, N), ..., (done, N) in this order,
\* done is the number of tasks that have settled, and when the run has
\* resolved the last invocation is (N, N).
C23_ProgressCountsSettlements ==
  run.phase # "idle"
    => /\ Len(run.progress) = Cardinality({t \in 1..run.total : run.status[t] \in TaskOutcomes})
       /\ \A k \in 1..Len(run.progress) : run.progress[k] = <<k, run.total>>
       /\ run.phase = "resolved" => Len(run.progress) = run.total
       /\ lastOp.op = "task" => run.progress[Len(run.progress)][1] = run.done

\* C23 witness: a run of three tasks has resolved with a rejected task among
\* them, and the last report was (3, 3)
C23_Witness ==
  /\ run.phase = "resolved"
  /\ run.total = 3
  /\ \E t \in 1..3 : run.status[t] = "rejected"
  /\ run.progress = <<<<1, 3>>, <<2, 3>>, <<3, 3>>>>

\* the timestamps a window of the model can hold
WindowTimes == {9980, 9990}

\* the handoff batch of lines 365-379 for viewport r and timestamp T
HandoffBatch(r, T) == NewBatch("handoff", r, <<T>>, Null, <<0, 1>>)

\* the run of the handoff batch for (r, T) settles and the batch leaves the
\* batches in flight (lines 378-379); as a step it is BatchSettle of that
\* batch, seen on batches alone
HandoffLeaves(r, T) ==
  /\ BagIn(HandoffBatch(r, T), batches)
  /\ batches' = batches (-) SetToBag({HandoffBatch(r, T)})

\* C24: with a viewport known and every tile fetch settling eventually, once
\* desiredTs has changed to T (the handoff batch for T and the viewport is in
\* flight), activeTs eventually is T with the loading flag cleared, whether
\* the fetches of the batch succeed or fail.
C24_HandoffCompletes ==
  \A r \in Regions, T \in WindowTimes :
    (region = r /\ desiredTs = T /\ BagIn(HandoffBatch(r, T), batches))
      ~> (activeTs = T /\ ~isLoadingFrame)

\* C24 witness: a handoff batch whose fetches all failed has settled, and
\* activeTs is the desired frame with nothing loading
C24_Witness ==
  /\ lastOp.op = "settle" /\ lastOp.kind = "handoff"
  /\ region # Null
  /\ tileCache = {}
  /\ desiredTs = 9980 /\ activeTs = 9980
  /\ ~isLoadingFrame

\* C25: when desiredTs changes while no viewport is known, activeTs is the
\* new desiredTs after the same step, no batch is started, no prefetch is
\* scheduled and the loading flag stays down.
C25_NoViewportSwapsAtOnce ==
  [][(region' = Null /\ desiredTs' # desiredTs)
      => /\ activeTs' = desiredTs'
         /\ batches' = batches /\ batches = EmptyBag
         /\ prefetchDebounce' = Null
         /\ ~isLoadingFrame']_vars

\* C25 witness: without a viewport the slider was committed on the older
\* frame, and activeTs has followed
C25_Witness ==
  /\ region = Null
  /\ lastOp.op = "onSlidingComplete"
  /\ windowFrames = <<9980, 9990>>
  /\ frameIdx = 0 /\ desiredTs = 9980 /\ activeTs = 9980
  /\ ~isLoadingFrame /\ batches = EmptyBag

\* C26: whenever the window is non-empty, a step that changes frameIdx (slider
\* commit, playback tick, re-clamp after a refresh) ends with desiredTs =
\* windowFrames[frameIdx], whatever batches are in flight; and in every
\* settled state desiredTs is an element of the window, the one at frameIdx.
C26_DesiredFollowsFrameIdx ==
  Len(windowFrames) > 0
    => /\ frameIdx \in 0..(Len(windowFrames) - 1)
       /\ desiredTs = windowFrames[frameIdx + 1]

\* C26 witness: a tick has moved frameIdx while the handoff batch of the
\* frame before is still in flight, and desiredTs is the new frame
C26_Witness ==
  /\ lastOp.op = "tick"
  /\ windowFrames = <<9980, 9990>>
  /\ frameIdx = 1 /\ desiredTs = 9990
  /\ activeTs = 9990
  /\ \E b \in BagToSet(batches) : b.kind = "handoff" /\ b.frames = <<9980>>

\* C27: the tile cache only grows, whatever acts (a prefetch, a warm pass, a
\* handoff, a refresh, the teardown of the screen), and a URL enters it only
\* when a batch settles whose tasks include a prefetch of exactly that URL,
\* answered with success by the platform.
C27_CacheOnlyGrows ==
  [][/\ tileCache \subseteq tileCache'
     /\ tileCache' # tileCache
          => /\ lastOp'.op = "settle"
             /\ lastOp'.pattern = "allOk"
             /\ \E b \in BagToSet(batches) :
                  /\ CopiesIn(b, batches') < CopiesIn(b, batches)
                  /\ tileCache' \ tileCache
                       \subseteq {BatchUrls(b)[j] : j \in 1..Len(BatchUrls(b))}]_vars

\* C27 witness: the screen has been torn down with tiles in the cache, and a
\* batch that was in flight has then settled with failures only
C27_Witness ==
  /\ ~mounted
  /\ lastOp.op = "settle" /\ lastOp.pattern = "allFail"
  /\ Cardinality(tileCache) = 18

\* C28: a step of the slider's drag (onValueChange) changes pendingIdx only:
\* frameIdx, desiredTs, activeTs, isPlaying, the cache and everything else
\* stay, no batch is started and no prefetch scheduled; pendingIdx is cleared
\* by onSlidingComplete only, which is also what commits the dragged index.
C28_DragChangesPendingOnly ==
  [][/\ lastOp'.op = "onValueChange"
          => UNCHANGED <<frames, windowFrames, frameIdx, desiredTs, activeTs,
                         region, isLoadingFrame, isPlaying, warming, warmProgress,
                         lastWarmSig, animTimer, liveIntervals, prefetchDebounce,
                         batches, tileCache>>
     /\ (pendingIdx # Undefined /\ pendingIdx' = Undefined)
          => (lastOp'.op = "onSlidingComplete" /\ frameIdx' = lastOp'.idx)
     /\ pendingIdx' # pendingIdx
          => lastOp'.op \in {"onValueChange", "onSlidingComplete"}]_vars

\* C28 witness: the thumb is held on the older frame while playback shows
\* the newer one
C28_Witness ==
  /\ lastOp.op = "onValueChange"
  /\ pendingIdx = 0
  /\ frameIdx = 1 /\ desiredTs = 9990
  /\ isPlaying

\* the warm passes in flight
WarmBatches(bs) == {b \in BagToSet(bs) : b.kind = "warm"}

\* the URLs of every frame of fs x zoom offsets {0, -1} x the 3 x 3
\* neighbourhood of the tile of viewport r
WarmUrlSet(r, fs) ==
  LET base == lngLatToTile(r.longitude, r.latitude, zClamp(r))
  IN {tileUrl(fs[k], Max(0, Min(MAX_NATIVE_Z, base.z + dz)), base.x + dx, base.y + dy, TILE_SIZE) :
        k \in 1..Len(fs), dz \in {0, -1}, dx \in -1..1, dy \in -1..1}

\* C29: a press of Play with a viewport, two frames or more and a signature
\* other than the recorded one stops playback and starts one batch of
\* prefetch tasks for every frame of windowFrames x zoom offsets {0, -1} x
\* the 3 x 3 neighbourhood, without recording the signature; the signature
\* changes only when a warm pass settles; warming is true exactly while a
\* warm pass is in flight, and playback is off all that time.
C29_WarmPass ==
  [][/\ (/\ lastOp'.op = "onPressPlay"
         /\ region # Null /\ Len(windowFrames) >= 2
         /\ warmSignature(region, windowFrames, TILE_SIZE) # lastWarmSig)
          => /\ ~isPlaying' /\ ~animTimer'
             /\ lastWarmSig' = lastWarmSig
             /\ tileCache' = tileCache
             /\ \E b \in WarmBatches(batches') :
                  /\ batches' = batches (+) SetToBag({b})
                  /\ b.r = region /\ b.frames = windowFrames
                  /\ Len(BatchUrls(b)) = Len(windowFrames) * 2 * 9
                  /\ {BatchUrls(b)[j] : j \in 1..Len(BatchUrls(b))}
                       = WarmUrlSet(region, windowFrames)
     /\ lastWarmSig' # lastWarmSig
          => /\ lastOp'.op = "settle" /\ lastOp'.kind = "warm"
             /\ \E b \in WarmBatches(batches) :
                  batches' = batches (-) SetToBag({b}) /\ lastWarmSig' = b.sig
     /\ warming' <=> WarmBatches(batches') # {}
     /\ Cardinality(WarmBatches(batches')) <= 1
     /\ warming' => (~isPlaying' /\ ~animTimer')]_vars

\* C29 witness: Play was pressed in a viewport other than the warmed one:
\* playback is off and the pass over both frames is in flight
C29_Witness ==
  /\ lastOp.op = "onPressPlay"
  /\ warming /\ ~isPlaying
  /\ lastWarmSig # Null
  /\ \E b \in WarmBatches(batches) :
       b.r = region /\ b.frames = windowFrames /\ Len(windowFrames) = 2 /\ b.sig # lastWarmSig

\* C37: after the screen is torn down no timer of the screen fires (frame
\* refresh interval, playback interval, prefetch debounce timer) and no new
\* prefetch batch is started.
C37_NothingFiresAfterTeardown ==
  [][~mounted
       => /\ lastOp'.op \notin {"fetchFrames", "tick", "prefetchTimer"}
          /\ \A b \in BagToSet(batches') :
                CopiesIn(b, batches') <= CopiesIn(b, batches)]_vars

\* the handoff batches (lines 359-385) among the batches bs
HandoffBatches(bs) == {b \in BagToSet(bs) : b.kind = "handoff"}

\* C34: with the viewport known, once every batch in flight has settled
\* activeTs equals desiredTs: a batch started for an older desiredTs that
\* settles after the batch of a newer one does not leave the older timestamp
\* on display.
C34_SettledMeansDisplayed ==
  (region # Null /\ ~Falsy(desiredTs) /\ batches = EmptyBag)
    => activeTs = desiredTs

\* C35: isLoadingFrame is true whenever the handoff batch for the current
\* desiredTs (and viewport) is in flight, and false when no handoff batch is
\* in flight; the completion or cleanup of an older batch does not clear it
\* while the newest batch is running.
C35_LoadingWhileHandoffInFlight ==
  /\ (region # Null /\ ~Falsy(desiredTs) /\ BagIn(HandoffBatch(region, desiredTs), batches))
        => isLoadingFrame
  /\ HandoffBatches(batches) = {} => ~isLoadingFrame

\* C32: whenever lastWarmSig holds a signature, every tile URL of the warm
\* pass that recorded it is in the cache (a warm pass with failed fetches
\* does not record its signature).
C32_RecordedSignatureIsWarmed ==
  lastWarmSig # Null
    => /\ warmed # Null
       /\ WarmUrlSet(warmed.r, warmed.frames) \subseteq tileCache

DebounceFrames == { << >>, <<9980, 9990>> }

InitDebounce ==
  /\ prefetchDebounce = Null
  /\ clock = 0
  /\ schedCalls = << >>
  /\ executed = << >>

\* schedulePrefetchAll(r, framesToPrefetch) is called at the current instant
ScheduleCall(r, framesToPrefetch) ==
  /\ LET armed == r # Null /\ Len(framesToPrefetch) > 0
     IN /\ armed => Len(schedCalls) < MaxSchedCalls
        /\ schedCalls' = IF armed
             THEN Append(schedCalls, [at |-> clock, r |-> r, frames |-> framesToPrefetch])
             ELSE schedCalls
  /\ prefetchDebounce' = schedulePrefetchAll(prefetchDebounce, r, framesToPrefetch, clock)
  /\ lastOp' = [op |-> "schedulePrefetchAll", r |-> r, frames |-> framesToPrefetch]
  /\ UNCHANGED <<tileCache, cacheVars, runnerVars, clock, executed, screenVars, appVars>>

\* the debounce timer fires: its callback starts the batch (lines 334-352)
DebounceFire ==
  /\ prefetchDebounce # Null
  /\ prefetchDebounce.due <= clock
  /\ executed' = Append(executed, [at |-> clock, ncalls |-> Len(schedCalls),
                                 batch |-> PrefetchAllBatch(prefetchDebounce)])
  /\ prefetchDebounce' = Null
  /\ lastOp' = [op |-> "debounceTimer"]
  /\ UNCHANGED <<tileCache, cacheVars, runnerVars, clock, schedCalls, screenVars, appVars>>

\* time passes, by at most TickMs and not beyond the instant a timer is due
AdvanceClock ==
  /\ clock < MaxClock
  /\ prefetchDebounce # Null => prefetchDebounce.due > clock
  /\ clock' = IF prefetchDebounce # Null /\ prefetchDebounce.due < clock + TickMs
                THEN prefetchDebounce.due ELSE clock + TickMs
  /\ lastOp' = [op |-> "time"]
  /\ UNCHANGED <<tileCache, cacheVars, runnerVars, prefetchDebounce, schedCalls, executed, screenVars, appVars>>

NextDebounce ==
  \/ \E r \in DebounceRegions \cup {Null}, f \in DebounceFrames : ScheduleCall(r, f)
  \/ DebounceFire
  \/ AdvanceClock

\* calls j..k of schedulePrefetchAll form a burst: each arrives less than the
\* debounce window after the one before it
IsBurst(j, k) ==
  \A i \in j..(k - 1) : schedCalls[i + 1].at - schedCalls[i].at < PREFETCH_DEBOUNCE_MS

\* the batches started by the timers that the calls j..k armed (an executed
\* batch records how many calls had been made when its timer fired)
ExecutedOf(j, k) == {m \in 1..Len(executed) : executed[m].ncalls \in j..k}

\* the timer armed by call k is no longer pending
TimerOfCallIsOver(k) ==
  \/ k = Len(schedCalls) /\ prefetchDebounce = Null
  \/ k < Len(schedCalls) /\ schedCalls[k + 1].at > schedCalls[k].at + PREFETCH_DEBOUNCE_MS

\* C7: of n >= 1 calls with a viewport and frames, each less than the debounce
\* window (150 ms) after the previous one, only the last one is executed: at
\* most one batch, fired one debounce window after the last call, with the
\* (viewport, frames) of the last call; exactly one once its timer is over.
C7_DebounceCollapse ==
  \A j \in 1..Len(schedCalls), k \in 1..Len(schedCalls) :
    (j <= k /\ IsBurst(j, k)) =>
      /\ \A m \in ExecutedOf(j, k) :
           /\ executed[m].ncalls = k
           /\ executed[m].at = schedCalls[k].at + PREFETCH_DEBOUNCE_MS
           /\ executed[m].batch.r = schedCalls[k].r
           /\ executed[m].batch.frames = schedCalls[k].frames
      /\ Cardinality(ExecutedOf(j, k)) <= 1
      /\ TimerOfCallIsOver(k) => Cardinality(ExecutedOf(j, k)) = 1

\* C7 witness: a burst of three calls at three instants with changing
\* viewports, and the one batch it led to, run for the last viewport.
C7_Witness ==
  /\ Len(schedCalls) = 3
  /\ IsBurst(1, 3)
  /\ schedCalls[1].at < schedCalls[2].at /\ schedCalls[2].at < schedCalls[3].at
  /\ schedCalls[1].r # schedCalls[2].r /\ schedCalls[2].r # schedCalls[3].r
  /\ Len(executed) = 1
  /\ executed[1].batch.r = schedCalls[3].r
  /\ executed[1].at = schedCalls[3].at + PREFETCH_DEBOUNCE_MS
  /\ prefetchDebounce = Null

(***************************************************************************)
(* The helper functions on their own (specification SpecHelpers): each     *)
(* action is one call, with its arguments and its result in lastOp; the    *)
(* functions keep no state, so a behaviour is a single call                *)
(***************************************************************************)
MaxLen == 3
MaxSeries == 27

TimelineVals == {100, 200, 300, 400, 600}
Targets == {50 * k : k \in 0..14}

\* the frame lists of the calls: ascending, repeated timestamps included
AscLists ==
  {fs \in UNION {[1..n -> TimelineVals] : n \in 0..MaxLen} :
     \A i \in 1..(Len(fs) - 1) : fs[i] <= fs[i + 1]}

\* k frames from start on, step seconds apart
Series(start, step, k) == [i \in 1..k |-> start + (i - 1) * step]
SeriesStarts == {2500, 2800, 2801, 6000}
SeriesSteps == {300, 500}

\* the whole world in view (longitudeDelta 360, zoom 0)
RegionWorld == [latitude |-> 0, longitude |-> 0, lonDeltaNum |-> 360, lonDeltaDen |-> 1]
HelperRegions == {RegionA, RegionB, RegionWorld}

\* longitudes and latitudes of the calls of lngLatToTile (units of 0.0005
\* degree): the antimeridian on both sides, Greenwich, Gainesville, the
\* equator, mid and high latitudes on both hemispheres
TileLons == {-360000, -359999, -164600, -1, 0, 1, 180000, 359999, 360000}
TileLats == {0, 59200, 59201, 120000, -90000, 170000, -170000, 178000, -178000}

\* the entries of the provider's lists: frames, and entries whose time is
\* missing, null, an empty string, a word, a number spelled as a string
MaxPast == 2
HelperEntries ==
  {Frame(9990), Frame(9980), Entry(JsUndefined), Entry(JsNull), Entry(JsStr("")),
   Entry(JsStr("abc")), Entry(JsStr("9985"))}
HelperLists(n) == UNION {[1..k -> HelperEntries] : k \in 0..n}

allButLastOp == <<tileCache, cacheVars, runnerVars, prefetchDebounce, debounceVars, screenVars, appVars>>

\* closestFrameIndex(fs, target) is called (lines 122-128)
Call_closestFrameIndex(fs, target) ==
  /\ lastOp.op = "init"
  /\ lastOp' = [op |-> "closestFrameIndex", frames |-> fs, target |-> target,
                result |-> closestFrameIndex(fs, target)]
  /\ UNCHANGED allButLastOp

\* the useMemo of windowFrames runs for the list fs (lines 307-312)
Call_windowFrames(fs) ==
  /\ lastOp.op = "init"
  /\ lastOp' = [op |-> "windowFrames", frames |-> fs, now |-> now,
                result |-> WindowOf(fs, now)]
  /\ UNCHANGED allButLastOp

\* schedulePrefetchAll(r, fs) is called and its timer fires: the task list
\* of lines 338-350
Call_prefetchAll(r, fs) ==
  /\ lastOp.op = "init"
  /\ schedulePrefetchAll(Null, r, fs, 0) # Null
  /\ lastOp' = [op |-> "prefetchAll", r |-> r, frames |-> fs,
                tasks |-> BatchUrls(PrefetchAllBatch(schedulePrefetchAll(Null, r, fs, 0)))]
  /\ UNCHANGED allButLastOp

\* lngLatToTile(lon, lat, z) is called (lines 131-137)
Call_lngLatToTile(lon, lat, z) ==
  /\ lastOp.op = "init"
  /\ lastOp' = [op |-> "lngLatToTile", lon |-> lon, lat |-> lat, z |-> z,
                tile |-> lngLatToTile(lon, lat, z)]
  /\ UNCHANGED allButLastOp

\* fetchFrames builds merged from the provider's lists (lines 282-287)
Call_mergedFrames(past, nowcast) ==
  /\ lastOp.op = "init"
  /\ lastOp' = [op |-> "merged", past |-> past, nowcast |-> nowcast,
                result |-> MergedFrames([ok |-> TRUE, past |-> past, nowcast |-> nowcast])]
  /\ UNCHANGED allButLastOp

\* two viewports 0.0005 degree apart across a tile boundary of zoom 12, with
\* the same centre when rounded to 0.001 degree
RegionD == [latitude |-> 59200, longitude |-> -164883, lonDeltaNum |-> 3, lonDeltaDen |-> 100]
RegionE == [latitude |-> 59200, longitude |-> -164882, lonDeltaNum |-> 3, lonDeltaDen |-> 100]
WarmRegions == {RegionA, RegionC, RegionD, RegionE}
WarmLists == {<<9990>>, <<9980, 9990>>, <<9980, 9985, 9990>>}

\* what a press of Play computes for viewport r and window fs: the signature
\* (line 508) and the URLs of the warm pass (lines 396-410)
WarmCall(r, fs) ==
  LET urls == BatchUrls(NewBatch("warm", r, fs, Null, <<0, 1>>))
  IN [r |-> r, frames |-> fs, sig |-> warmSignature(r, fs, TILE_SIZE),
      urls |-> {urls[j] : j \in 1..Len(urls)}]

\* warmSignature and the URL list of warmPlaybackCache for two (viewport,
\* window) pairs
Call_warmSignature(r1, fs1, r2, fs2) ==
  /\ lastOp.op = "init"
  /\ lastOp' = [op |-> "warmSignature", a |-> WarmCall(r1, fs1), b |-> WarmCall(r2, fs2)]
  /\ UNCHANGED allButLastOp

NextHelpers ==
  \/ \E r1 \in WarmRegions, r2 \in WarmRegions, fs1 \in WarmLists, fs2 \in WarmLists :
       Call_warmSignature(r1, fs1, r2, fs2)
  \/ \E past \in HelperLists(MaxPast), nowcast \in HelperLists(1) :
       Call_mergedFrames(past, nowcast)
  \/ \E fs \in AscLists, target \in Targets : Call_closestFrameIndex(fs, target)
  \/ \E start \in SeriesStarts, step \in SeriesSteps, k \in 0..MaxSeries :
       Call_windowFrames(Series(start, step, k))
  \/ \E r \in HelperRegions, fs \in AscLists : Call_prefetchAll(r, fs)
  \/ \E lon \in TileLons, lat \in TileLats, z \in 0..MAX_NATIVE_Z :
       Call_lngLatToTile(lon, lat, z)

\* C16: for an ascending list and a target exactly equidistant from two
\* adjacent frames, closestFrameIndex returns the later one of the two (the
\* higher index), as index 1 for [100, 200, 300] and target 150.
C16_TieGoesToLaterFrame ==
  lastOp.op = "closestFrameIndex"
    => \A i \in 1..(Len(lastOp.frames) - 1) :
         (/\ lastOp.frames[i] < lastOp.target
          /\ lastOp.target < lastOp.frames[i + 1]
          /\ lastOp.target - lastOp.frames[i] = lastOp.frames[i + 1] - lastOp.target)
           => lastOp.result = i

\* C17: for a non-empty ascending list and any target, below the first frame
\* and above the last included, closestFrameIndex returns an index i in range
\* with |frames[i] - target| minimal over the list; for the empty list, -1.
C17_ClosestIsNearest ==
  lastOp.op = "closestFrameIndex"
    => IF Len(lastOp.frames) = 0 THEN lastOp.result = -1
       ELSE /\ lastOp.result \in 0..(Len(lastOp.frames) - 1)
            /\ \A j \in 1..Len(lastOp.frames) :
                 Abs(lastOp.frames[lastOp.result + 1] - lastOp.target)
                   <= Abs(lastOp.frames[j] - lastOp.target)

\* C17 witness: a target strictly between two frames and nearer the earlier
\* one, in a list of three
C17_Witness ==
  /\ lastOp.op = "closestFrameIndex"
  /\ lastOp.frames = <<100, 300, 600>>
  /\ lastOp.target = 150
  /\ lastOp.result = 0

\* C18: windowFrames is the last min(18, m) elements of the ascending
\* subsequence of the m frames with now - 7200 <= ts <= now: at most 18
\* entries, ascending, none older than two hours or later than now, and the
\* cap drops the oldest first.
C18_WindowIsLastEighteen ==
  lastOp.op = "windowFrames"
    => LET fs == lastOp.frames
           w == lastOp.result
           In == {i \in 1..Len(fs) : lastOp.now - 7200 <= fs[i] /\ fs[i] <= lastOp.now}
           m == Cardinality(In)
           k == IF m < 18 THEN m ELSE 18
           Kept == {i \in In : Cardinality({j \in In : j > i}) < k}
       IN /\ Len(w) = k
          /\ \A j \in 1..(Len(w) - 1) : w[j] < w[j + 1]
          /\ \A j \in 1..Len(w) : lastOp.now - 7200 <= w[j] /\ w[j] <= lastOp.now
          /\ \A i \in Kept : w[k - Cardinality({j \in Kept : j > i})] = fs[i]

\* C18 witness: of 27 frames, 25 are in the window and the 18 newest are kept
C18_Witness ==
  /\ lastOp.op = "windowFrames"
  /\ Len(lastOp.frames) = 27
  /\ lastOp.frames[1] = 2500
  /\ Len(lastOp.result) = 18
  /\ lastOp.result[1] = 4900
  /\ lastOp.result[18] = lastOp.now

\* C19: the full-window prefetch scheduled for F frames submits exactly
\* F * 2 * 9 tasks (two zoom levels, a 3 x 3 neighbourhood): 54 for 3 frames.
C19_TaskCount ==
  lastOp.op = "prefetchAll"
    => /\ Len(lastOp.tasks) = Len(lastOp.frames) * 2 * 9
       /\ Len(lastOp.frames) = 3 => Len(lastOp.tasks) = 54

\* C19 witness: 54 tasks for three frames, at the zoom where both levels of
\* the spread are the same level 0
C19_Witness ==
  /\ lastOp.op = "prefetchAll"
  /\ lastOp.r = RegionWorld
  /\ Len(lastOp.frames) = 3
  /\ Len(lastOp.tasks) = 54

\* C20: at z = 0 every (lon, lat) maps to the tile x = 0, y = 0; and for a
\* fixed (lon, lat) the tile at z + 1 is one of the four children of the tile
\* at z: x' is 2x or 2x + 1 and y' is 2y or 2y + 1.
C20_TileSubdivision ==
  lastOp.op = "lngLatToTile"
    => LET t == lastOp.tile
           u == lngLatToTile(lastOp.lon, lastOp.lat, lastOp.z + 1)
       IN /\ lastOp.z = 0 => (t.x = 0 /\ t.y = 0)
          /\ u.x \in {2 * t.x, 2 * t.x + 1}
          /\ u.y \in {2 * t.y, 2 * t.y + 1}

\* the time field of an entry is numeric: a number, or a string that spells
\* one
IsNumericTime(t) == t.type = "number" \/ (t.type = "string" /\ t.s = "9985")

\* C30: the merged list of a successful refresh is sorted ascending and
\* consists exactly of the numeric time values of the past and nowcast
\* entries, each as often as it occurs; an entry whose time is missing or
\* not numeric contributes nothing.
C30_MergedIsSortedNumericTimes ==
  lastOp.op = "merged"
    => LET es == lastOp.past \o lastOp.nowcast
           w == lastOp.result
           numeric == {k \in 1..Len(es) : IsNumericTime(es[k].time)}
       IN /\ \A j \in 1..(Len(w) - 1) : w[j] <= w[j + 1]
          /\ Len(w) = Cardinality(numeric)
          /\ \A k \in numeric :
               Cardinality({j \in 1..Len(w) : w[j] = ToNumber(es[k].time).v})
                 = Cardinality({i \in numeric : ToNumber(es[i].time) = ToNumber(es[k].time)})

\* C31: two (viewport, frame window) pairs with the same warm signature have
\* the same set of tile URLs in their warm pass (so a press treated as a pure
\* toggle finds the tiles of the current viewport and window warmed).
C31_SameSignatureSameTiles ==
  lastOp.op = "warmSignature"
    => (lastOp.a.sig = lastOp.b.sig => lastOp.a.urls = lastOp.b.urls)

\* the URLs among tasks addressed to zoom level z
UrlsAtZoom(tasks, z) ==
  {tasks[j] : j \in {k \in 1..Len(tasks) : tasks[k] = tileUrl(tasks[k][1], z, tasks[k][4], tasks[k][5], TILE_SIZE)}}

\* the 3 x 3 block of tiles around tile c at its zoom level, for the
\* timestamps of fs
BlockAround(c, fs) ==
  {tileUrl(fs[k], c.z, c.x + dx, c.y + dy, TILE_SIZE) :
     k \in 1..Len(fs), dx \in -1..1, dy \in -1..1}

\* C33: for the zoom offset -1 the 3 x 3 block prefetched at zoom z - 1 is
\* centred on the tile that contains the viewport centre at zoom z - 1, the
\* parent (floor(x/2), floor(y/2)) of the base tile.
C33_CoarseBlockCentredOnParent ==
  (lastOp.op = "prefetchAll" /\ zClamp(lastOp.r) >= 1)
    => LET r == lastOp.r
           base == lngLatToTile(r.longitude, r.latitude, zClamp(r))
           centre == lngLatToTile(r.longitude, r.latitude, base.z - 1)
       IN /\ centre.x = base.x \div 2 /\ centre.y = base.y \div 2
          /\ UrlsAtZoom(lastOp.tasks, base.z - 1) = BlockAround(centre, lastOp.frames)

\* a URL addresses a tile of the grid of its zoom level
InGrid(url) ==
  LET z == url[3] x == url[4] y == url[5]
  IN /\ 0 <= z /\ z <= MAX_NATIVE_Z
     /\ 0 <= x /\ x < Pow2(z)
     /\ 0 <= y /\ y < Pow2(z)

\* C36: every tile URL built by a prefetch path addresses a tile inside the
\* grid of its zoom level: 0 <= z <= 12, 0 <= x < 2^z and 0 <= y < 2^z, for
\* every base tile, neighbour offset and zoom offset.
C36_TilesInsideGrid ==
  /\ lastOp.op = "prefetchAll" => \A j \in 1..Len(lastOp.tasks) : InGrid(lastOp.tasks[j])
  /\ lastOp.op = "warmSignature" => \A u \in lastOp.a.urls \cup lastOp.b.urls : InGrid(u)

(***************************************************************************)
(* The search input (src/app/components/SearchInput.tsx, lines 28-179)     *)
(***************************************************************************)
MaxSeq == 3          \* calls of fetchPredictions in SpecSearch

\* minLen = 3 (line 32)
minLen == 3

\* what the user can have typed, and the keys the parent can pass
Texts == {"", "ga", "gai", "gain"}
ApiKeys == {"", "key"}

\* json.predictions of an OK answer, mapped to Prediction (lines 94-97)
Suggestions ==
  << [place_id |-> "p1", description |-> "Gainesville, FL"],
     [place_id |-> "p2", description |-> "Gainesboro, TN"] >>

\* how an autocomplete request can end: status OK, ZERO_RESULTS, another
\* status, an HTTP error, a rejected fetch or body, an abort
RequestOutcomes == {"ok", "zero", "denied", "http", "error", "abort"}

InitSearch ==
  /\ text = ""
  /\ predictions = << >>
  /\ loading = FALSE
  /\ debounceTimer = Null
  /\ seqRef = 0
  /\ lastIssuedQuery = ""
  /\ requests = {}

\* abortRef.current?.abort() (line 49): the request in flight is aborted
AbortAll(rs) == {[r EXCEPT !.aborted = TRUE] : r \in rs}

\* fetchPredictions(query) up to its first await (lines 48-75); without an
\* apiKey it returns through the finally of line 102 at once
fetchPredictions(query) ==
  /\ seqRef < MaxSeq
  /\ seqRef' = seqRef + 1
  /\ IF apiKey = ""
       THEN /\ predictions' = << >>
            /\ loading' = FALSE
            /\ requests' = AbortAll(requests)
            /\ UNCHANGED lastIssuedQuery
       ELSE /\ loading' = TRUE
            /\ lastIssuedQuery' = query
            /\ requests' = AbortAll(requests)
                 \cup {[seq |-> seqRef + 1, query |-> query, aborted |-> FALSE]}
            /\ UNCHANGED predictions

searchOthers == <<tileCache, cacheVars, runnerVars, prefetchDebounce, debounceVars,
                  screenVars, homeVars, apiKey>>

\* lines 110-117: the pending timer is cleared, and armed again for a text
\* of minLen characters or more
handleChange_timer(newText) ==
  IF newText = "" \/ Len(newText) < minLen THEN Null ELSE [query |-> newText]

\* handleChange(newText) (lines 106-118)
HandleChange(newText) ==
  /\ text' = newText
  /\ debounceTimer' = handleChange_timer(newText)
  /\ IF newText = "" \/ Len(newText) < minLen
       THEN predictions' = << >> /\ loading' = FALSE
       ELSE UNCHANGED <<predictions, loading>>
  /\ lastOp' = [op |-> "handleChange", text |-> newText]
  /\ UNCHANGED <<seqRef, lastIssuedQuery, requests, searchOthers>>

\* the debounce timer of line 117 fires: fetchPredictions(newText)
SearchTimerFire ==
  /\ debounceTimer # Null
  /\ fetchPredictions(debounceTimer.query)
  /\ debounceTimer' = Null
  /\ lastOp' = [op |-> "searchTimer", text |-> debounceTimer.query]
  /\ UNCHANGED <<text, searchOthers>>

\* handleSelect(place) (lines 120-126)
handleSelect(place) ==
  /\ text' = place.description
  /\ predictions' = << >>
  /\ lastOp' = [op |-> "handleSelect", text |-> place.description]
  /\ UNCHANGED <<loading, debounceTimer, seqRef, lastIssuedQuery, requests, searchOthers>>

\* a suggestion of the list is pressed (line 172)
HandleSelect(k) ==
  /\ k \in 1..Len(predictions)
  /\ handleSelect(predictions[k])

\* handleSubmit (lines 128-136)
HandleSubmit ==
  IF Len(predictions) > 0
    THEN handleSelect(predictions[1])
  ELSE IF Len(text) >= minLen /\ lastIssuedQuery # text
    THEN /\ fetchPredictions(text)
         /\ lastOp' = [op |-> "handleSubmit", text |-> text]
         /\ UNCHANGED <<text, debounceTimer, searchOthers>>
  ELSE /\ lastOp' = [op |-> "alert", text |-> text]
       /\ UNCHANGED <<searchVars, searchOthers>>

\* the rest of fetchPredictions for request req (lines 75-103): the answer
\* arrives, or the fetch rejects; an aborted fetch rejects with AbortError
RequestSettle(req, outcome) ==
  /\ req \in requests
  /\ req.aborted <=> outcome = "abort"
  /\ requests' = requests \ {req}
  /\ predictions' =
       CASE outcome = "http" -> << >>
         [] outcome = "ok" /\ req.seq = seqRef -> Suggestions
         [] outcome = "zero" /\ req.seq = seqRef -> << >>
         [] OTHER -> predictions
  /\ loading' = (IF req.seq = seqRef THEN FALSE ELSE loading)
  /\ lastOp' = [op |-> "response", text |-> req.query]
  /\ UNCHANGED <<text, debounceTimer, seqRef, lastIssuedQuery, searchOthers>>

NextSearch ==
  \/ \E newText \in Texts : HandleChange(newText)
  \/ SearchTimerFire
  \/ \E k \in 1..Len(predictions) : HandleSelect(k)
  \/ HandleSubmit
  \/ \E req \in requests, outcome \in RequestOutcomes : RequestSettle(req, outcome)

\* C38: whenever the text has fewer than minLen characters the prediction
\* list is empty and nothing is loading: after the text is shortened below
\* minLen neither a pending debounce timer nor the response of an earlier
\* request repopulates the predictions or the loading flag.
C38_ShortTextHasNoPredictions ==
  Len(text) < minLen
    => /\ predictions = << >>
       /\ ~loading
       /\ debounceTimer = Null

(***************************************************************************)
(* The home screen (src/app/index.tsx): previousRoutes                     *)
(***************************************************************************)
MaxUses == 3         \* updates of previousRoutes in SpecHome
MaxDetails == 2      \* place-details requests in flight at a time

\* updated.slice(0, 10) (lines 69, 98)
MAX_PREVIOUS == 10

\* the location a place or route of the given name has
LocOf(name) == [lat |-> 29, lng |-> -82]

PlaceName(k) ==
  CASE k = 1 -> "p1" [] k = 2 -> "p2" [] k = 3 -> "p3" [] k = 4 -> "p4"
    [] k = 5 -> "p5" [] k = 6 -> "p6" [] k = 7 -> "p7" [] k = 8 -> "p8"
    [] k = 9 -> "p9" [] k = 10 -> "p10" [] k = 11 -> "p11" [] k = 12 -> "p12"

\* an id is the decimal string of a time in milliseconds, or the literal
\* "add" of the last tile of the saved routes
IdOfTime(ms) == [ms |-> ms]
AddId == [literal |-> "add"]

\* { id: Date.now().toString(), name, lat, lng } (lines 66, 95)
RouteItem(ms, name, loc) ==
  [id |-> IdOfTime(ms), name |-> name, lat |-> loc.lat, lng |-> loc.lng]

\* previousRoutes after the places p1 .. pn have been used in this order,
\* before the clock of the model starts
UsedBefore(n) == [k \in 1..n |-> RouteItem(-k, PlaceName(n - k + 1), LocOf(PlaceName(n - k + 1)))]
SeedRoutes == {UsedBefore(0), UsedBefore(MAX_PREVIOUS - 1), UsedBefore(MAX_PREVIOUS)}

\* the places the search input hands to onPlaceSelected: the oldest and the
\* newest of the earlier uses and two new ones
Places == {[place_id |-> PlaceName(k), description |-> PlaceName(k)] : k \in {1, MAX_PREVIOUS, MAX_PREVIOUS + 1, MAX_PREVIOUS + 2}}

\* items of savedRoutes = [...customRoutes, { id: "add", name: "Add a Route" }]
\* (line 133); a custom route can lack its coordinates (RouteItem: lat?, lng?)
AddItem == [id |-> AddId, name |-> "Add a Route", lat |-> Undefined, lng |-> Undefined]
SavedRoutes ==
  { [id |-> IdOfTime(-20), name |-> PlaceName(5), lat |-> 29, lng |-> -82],
    [id |-> IdOfTime(-19), name |-> PlaceName(MAX_PREVIOUS + 1), lat |-> 29, lng |-> -82],
    [id |-> IdOfTime(-18), name |-> PlaceName(6), lat |-> Undefined, lng |-> Undefined],
    AddItem }

RECURSIVE FilterOtherNames(_, _)
\* prev.filter((r) => r.name !== name)
FilterOtherNames(prev, name) ==
  IF prev = << >> THEN << >>
  ELSE IF Head(prev).name # name
    THEN <<Head(prev)>> \o FilterOtherNames(Tail(prev), name)
    ELSE FilterOtherNames(Tail(prev), name)

\* Array.prototype.slice(0, n)
Slice0(list, n) == SubSeq(list, 1, Min(Len(list), n))

recordUse_noFilter(prev, item) == Slice0(<<item>> \o prev, MAX_PREVIOUS)

\* the updater of setPreviousRoutes (lines 64-70, 93-99)
recordUse(prev, item) ==
  Slice0(<<item>> \o FilterOtherNames(prev, item.name), MAX_PREVIOUS)

InitHome ==
  /\ coords = Null
  /\ homeLoading = TRUE
  /\ details = {}
  /\ clockMs = 0

homeOthers == <<tileCache, cacheVars, runnerVars, prefetchDebounce, debounceVars,
                screenVars, searchVars>>

\* the effect of lines 35-52 ends: permission granted and a position, or not
LocationSettle(granted) ==
  /\ homeLoading
  /\ homeLoading' = FALSE
  /\ coords' = (IF granted THEN [lat |-> 29, lng |-> -82] ELSE coords)
  /\ lastOp' = [op |-> "location"]
  /\ UNCHANGED <<previousRoutes, details, clockMs, homeOthers>>

\* handlePlaceSelected(place) up to its first await (lines 54-59); the
\* search input is rendered once loading is false (lines 146-154)
PlaceSelected(place) ==
  /\ ~homeLoading
  /\ IF coords = Null
       THEN UNCHANGED details
       ELSE /\ Cardinality(details) < MaxDetails
            /\ place \notin details
            /\ details' = details \cup {place}
  /\ lastOp' = [op |-> "handlePlaceSelected"]
  /\ UNCHANGED <<coords, homeLoading, previousRoutes, clockMs, homeOthers>>

\* the rest of handlePlaceSelected (lines 60-85): the details arrive with a
\* location ("loc") or without one, or the fetch fails
DetailsSettle(place, outcome) ==
  /\ place \in details
  /\ details' = details \ {place}
  /\ IF outcome = "loc"
       THEN /\ clockMs < MaxUses
            /\ previousRoutes' = recordUse(previousRoutes,
                   RouteItem(clockMs, place.description, LocOf(place.description)))
            /\ clockMs' = clockMs + 1
            /\ lastOp' = [op |-> "setPreviousRoutes", name |-> place.description,
                          prev |-> previousRoutes]
       ELSE /\ lastOp' = [op |-> "alert"]
            /\ UNCHANGED <<previousRoutes, clockMs>>
  /\ UNCHANGED <<coords, homeLoading, homeOthers>>

\* handleRoutePress(item) (lines 88-113)
RoutePress(item) ==
  /\ IF item.id = AddId
       THEN /\ lastOp' = [op |-> "showAddRouteMenu"]
            /\ UNCHANGED <<previousRoutes, clockMs>>
     ELSE IF coords = Null \/ item.lat = Undefined \/ item.lng = Undefined
       THEN /\ lastOp' = [op |-> "alert"]
            /\ UNCHANGED <<previousRoutes, clockMs>>
     ELSE /\ clockMs < MaxUses
          /\ previousRoutes' = recordUse(previousRoutes,
                 RouteItem(clockMs, item.name, [lat |-> item.lat, lng |-> item.lng]))
          /\ clockMs' = clockMs + 1
          /\ lastOp' = [op |-> "setPreviousRoutes", name |-> item.name,
                        prev |-> previousRoutes]
  /\ UNCHANGED <<coords, homeLoading, details, homeOthers>>

NextHome ==
  \/ \E granted \in BOOLEAN : LocationSettle(granted)
  \/ \E place \in Places : PlaceSelected(place)
  \/ \E place \in details, outcome \in {"loc", "noloc", "error"} : DetailsSettle(place, outcome)
  \/ \E item \in SavedRoutes : RoutePress(item)
  \/ \E k \in 1..Len(previousRoutes) : RoutePress(previousRoutes[k])

\* C39: after any sequence of place selections and route presses
\* previousRoutes has at most 10 entries, no two entries share a name, the
\* destination used last is first and the remaining entries keep their
\* relative order.
C39_PreviousRoutes ==
  /\ Len(previousRoutes) <= 10
  /\ \A i, j \in 1..Len(previousRoutes) :
       previousRoutes[i].name = previousRoutes[j].name => i = j
  /\ lastOp.op = "setPreviousRoutes"
       => /\ Len(previousRoutes) >= 1
          /\ previousRoutes[1].name = lastOp.name
          /\ \A k \in 2..Len(previousRoutes) : previousRoutes[k].name # lastOp.name
          /\ Tail(previousRoutes)
               = SubSeq(FilterOtherNames(lastOp.prev, lastOp.name), 1, Len(previousRoutes) - 1)

\* C39 witness: a new destination was used while ten were listed: it is
\* first, the oldest one is gone and the other nine follow in their order
C39_Witness ==
  /\ lastOp.op = "setPreviousRoutes"
  /\ Len(lastOp.prev) = 10
  /\ \A k \in 1..10 : lastOp.prev[k].name # lastOp.name
  /\ Len(previousRoutes) = 10
  /\ Tail(previousRoutes) = SubSeq(lastOp.prev, 1, 9)

Init ==
  /\ InitCache
  /\ InitRunner
  /\ InitDebounce
  /\ InitScreen
  /\ InitSearch /\ apiKey = "key"
  /\ InitHome /\ previousRoutes = << >>
  /\ lastOp = [op |-> "init"]

Spec == Init /\ [][Next]_vars

SpecCache == Init /\ [][NextCache]_vars

SpecRunner == Init /\ [][NextRunner]_vars

SpecDebounce == Init /\ [][NextDebounce]_vars

SpecSlider == Init /\ [][NextSlider]_vars

\* the screen when every tile fetch settles eventually: no handoff batch
\* stays in flight for ever
SpecLive ==
  /\ Init /\ [][Next]_vars
  /\ \A r \in Regions, T \in WindowTimes : WF_batches(HandoffLeaves(r, T))

SpecTeardown == Init /\ [][NextTeardown]_vars

SpecHelpers == Init /\ [][NextHelpers]_vars

\* the home screen, after none, nine or ten earlier uses
InitUsedBefore ==
  /\ InitCache /\ InitRunner /\ InitDebounce /\ InitScreen
  /\ InitSearch /\ apiKey = "key"
  /\ InitHome /\ previousRoutes \in SeedRoutes
  /\ lastOp = [op |-> "init"]

SpecHome == InitUsedBefore /\ [][NextHome]_vars

\* the search input, with or without an apiKey
InitWithKey ==
  /\ InitCache /\ InitRunner /\ InitDebounce /\ InitScreen
  /\ InitSearch /\ apiKey \in ApiKeys
  /\ InitHome /\ previousRoutes = << >>
  /\ lastOp = [op |-> "init"]

SpecSearch == InitWithKey /\ [][NextSearch]_vars

====
